---- MODULE Spec2Model ----
(***************************************************************************)
(* Card-profile synchronisation engine: server/src/vaultRegistrar.js, the  *)
(* batch CLI server/scripts/updateFromExcel.js and the vault routes of     *)
(* server/src/server.js.                                                   *)
(*                                                                         *)
(* A JavaScript string is a sequence of one-character strings; undefined   *)
(* is the value Undef, which is no sequence of characters.                 *)
(***************************************************************************)
EXTENDS Integers, Sequences, FiniteSets, TLC

(***************************************************************************)
(* Bounds of the model.                                                    *)
(***************************************************************************)
MaxRows == 3
\* Single-row requests one caller makes one after the other
MaxRequests == 2

(***************************************************************************)
(* Strings.                                                                *)
(***************************************************************************)
Undef == <<"undefined-value">>
Empty == <<>>

Min(S) == CHOOSE a \in S : \A b \in S : a <= b
Max(S) == CHOOSE a \in S : \A b \in S : b <= a

Rep(c, n) == [k \in 1..n |-> c]

IsSpace(c) == c \in {" ", "\n", "\t", "\r"}

\* String.prototype.trim: what lies between the first and the last
\* character that is no white space
Trim(v) ==
  LET keep == {k \in 1..Len(v) : ~IsSpace(v[k])}
  IN IF keep = {} THEN <<>> ELSE SubSeq(v, Min(keep), Max(keep))

\* String.prototype.substring(0, m) and slice(0, m), for m >= 0
Substring0(v, m) == IF Len(v) > m THEN SubSeq(v, 1, m) ELSE v

UpperChars == <<"A","B","C","D","E","F","G","H","I","J","K","L","M","N","O","P","Q","R","S","T","U","V","W","X","Y","Z">>
LowerChars == <<"a","b","c","d","e","f","g","h","i","j","k","l","m","n","o","p","q","r","s","t","u","v","w","x","y","z">>

ToLowerChar(c) == IF \E k \in 1..Len(UpperChars) : UpperChars[k] = c
                  THEN LowerChars[CHOOSE k \in 1..Len(UpperChars) : UpperChars[k] = c]
                  ELSE c

\* String.prototype.toLowerCase
ToLower(v) == [k \in 1..Len(v) |-> ToLowerChar(v[k])]

\* String.prototype.includes
Includes(v, sub) == \E k \in 0..(Len(v) - Len(sub)) : SubSeq(v, k + 1, k + Len(sub)) = sub

\* JavaScript truthiness of a string-or-undefined value
Truthy(v) == v # Undef /\ v # <<>>

\* a || b
Or2(a, b) == IF Truthy(a) THEN a ELSE b

\* a || b || c ... over the listed values
OrChain(vals) ==
  LET hits == {k \in 1..Len(vals) : Truthy(vals[k])}
  IN IF hits = {} THEN vals[Len(vals)] ELSE vals[Min(hits)]

\* s(val, def = ''): safe string trimming and defaulting
s(val) == IF val = Undef THEN <<>> ELSE Trim(val)

DigitChars == <<"0","1","2","3","4","5","6","7","8","9">>
IsDigit(c) == \E k \in 1..10 : DigitChars[k] = c
DigitVal(c) == (CHOOSE k \in 1..10 : DigitChars[k] = c) - 1

\* The value of a run of decimal digits
RECURSIVE DigitsVal(_)
DigitsVal(v) ==
  IF v = <<>> THEN 0 ELSE DigitsVal(SubSeq(v, 1, Len(v) - 1)) * 10 + DigitVal(v[Len(v)])

NaN == [nan |-> TRUE, val |-> 0]
Num(n) == [nan |-> FALSE, val |-> n]

\* Number(str): surrounding whitespace is ignored, the empty string is 0,
\* an optionally signed run of decimal digits is its value, anything else NaN
Number(v) ==
  LET t == Trim(v)
      body == IF t # <<>> /\ Head(t) \in {"-", "+"} THEN Tail(t) ELSE t
      neg == t # <<>> /\ Head(t) = "-"
  IN IF t = <<>> THEN Num(0)
     ELSE IF body # <<>> /\ \A k \in 1..Len(body) : IsDigit(body[k])
          THEN Num(IF neg THEN 0 - DigitsVal(body) ELSE DigitsVal(body))
          ELSE NaN

\* x === k for a Number() result x and an integer k
NumIs(x, k) == ~x.nan /\ x.val = k

S_true == <<"t","r","u","e">>
S_false == <<"f","a","l","s","e">>
S_00 == <<"0","0">>
S_truncated == <<"t","r","u","n","c","a","t","e","d">>
S_UnknownError == <<"U","n","k","n","o","w","n"," ","e","r","r","o","r">>
S_CardNoRequired == <<"C","a","r","d"," ","N","o"," ","i","s"," ","r","e","q","u","i","r","e","d">>

S_Company == <<"M","e","r","d","e","k","a"," ","T","s","i","n","g","s","a","n"," ","I","n","d","o","n","e","s","i","a">>
S_1 == <<"1">>
S_2 == <<"2">>
S_01 == <<"0","1">>
S_10 == <<"1","0">>
S_11 == <<"1","1">>
S_labota == <<"l","a","b","o","t","a">>
S_makarti == <<"m","a","k","a","r","t","i">>
S_noaccessbang == <<"n","o"," ","a","c","c","e","s","s","!","!">>
S_noaccess == <<"n","o"," ","a","c","c","e","s","s">>
S_localhire == <<"l","o","c","a","l"," ","h","i","r","e">>
S_local == <<"l","o","c","a","l">>
S_active == <<"a","c","t","i","v","e">>
S_inactive == <<"i","n","a","c","t","i","v","e">>
S_MakartiMessHall == <<"M","a","k","a","r","t","i"," ","M","e","s","s","H","a","l","l">>
S_LabotaMesshall == <<"L","a","b","o","t","a"," ","M","e","s","s","h","a","l","l">>
S_LocalHireNoAccess == <<"L","o","c","a","l"," ","H","i","r","e"," ","/"," ","N","o"," ","A","c","c","e","s","s","!","!">>
S_Makarti == <<"M","a","k","a","r","t","i">>
S_Labota == <<"L","a","b","o","t","a">>
S_NoAccess == <<"N","o","A","c","c","e","s","s">>

(***************************************************************************)
(* Rows: a row is a function from column names to strings; a column the    *)
(* sheet does not have reads as undefined.                                 *)
(***************************************************************************)
Col(row, name) == IF name \in DOMAIN row THEN row[name] ELSE Undef

\* row[a] || row[b] || ... over the listed column names
Cols(row, names) == OrChain([k \in 1..Len(names) |-> Col(row, names[k])])

\* A default that was left empty
emptyDefault == <<>>

\* Defaults for access levels when source data leaves them blank
DEFAULT_ACCESS_LEVEL == S_00
DEFAULT_FACE_ACCESS_LEVEL == S_00
DEFAULT_LIFT_ACCESS_LEVEL == S_00

\* Length of the CardNo prefix kept by both mappers and by the overrides
CardNoMax == 10

(***************************************************************************)
(* mapRowToProfile: the AddCard mapper.                                    *)
(***************************************************************************)
\* The staff-number columns, read where the card number is wanted
StaffNoColumnsForCardNo ==
  <<"Card No #[Max 10]", "Card No [Max 10]", "Card No", "CardNo", "Card Number",
    "Staff No [Max 15]", "Staff No. [Max 10]", "Emp. No", "Employee ID", "ID", "NIK">>

\* The columns the card number is read from
CreateCardNoColumns == <<"Card No #[Max 10]", "Card No [Max 10]", "Card No", "CardNo", "Card Number">>

mapRowToProfile(row) ==
  LET name == s(Cols(row, <<"Card Name [Max 50]", "Card Name", "Name", "Employee Name", "Employee", "Nama">>))
      staffNoRaw == s(Cols(row, <<"Staff No [Max 15]", "Staff No. [Max 10]", "Emp. No", "Employee ID", "ID", "NIK">>))
      cardNoRaw == s(Cols(row, CreateCardNoColumns))
      department == s(Cols(row, <<"Department [Max 50]", "Department", "Departement", "Dept">>))
      company == s(Or2(Cols(row, <<"Company [Max 50]", "Company">>), S_Company))
      email == s(Or2(Cols(row, <<"Email [Max 50]", "Email", "Email Address">>), <<>>))
      mobile == s(Or2(Cols(row, <<"Mobile No. [Max 20]", "Mobile No", "Phone">>), <<>>))
      face0 == s(Or2(Cols(row, <<"Face Access Level [Max 3]", "Face Access Level", "FaceAccessLevel">>), <<>>))
      faceAccessLevel == IF ~Truthy(face0) THEN DEFAULT_FACE_ACCESS_LEVEL ELSE face0
      lift0 == s(Or2(Cols(row, <<"Lift Access Level [Max 3]", "Lift Access Level", "LiftAccessLevel">>), <<>>))
      liftAccessLevel == IF ~Truthy(lift0) THEN DEFAULT_LIFT_ACCESS_LEVEL ELSE lift0
      access0 == s(Cols(row, <<"Access Level [Max 3]", "Access Level", "AccessLevel">>))
      messHallRaw == s(Or2(Cols(row, <<"MessHall", "Mess Hall">>), <<>>))
      messHall == Trim(ToLower(messHallRaw))
      access1 == IF ~Truthy(access0)
                 THEN IF messHall = S_labota THEN S_1
                      ELSE IF messHall = S_makarti THEN S_2
                      ELSE <<>>
                 ELSE access0
      accessLevel == IF ~Truthy(access1) THEN DEFAULT_ACCESS_LEVEL ELSE access1
      cardNo == Substring0(Or2(cardNoRaw, <<>>), CardNoMax)
  IN [ CardNo |-> cardNo,
       StaffNo |-> staffNoRaw,
       Name |-> name,
       Department |-> department,
       Company |-> company,
       AccessLevel |-> accessLevel,
       FaceAccessLevel |-> faceAccessLevel,
       LiftAccessLevel |-> liftAccessLevel,
       Email |-> email,
       MobileNo |-> mobile,
       ActiveStatus |-> S_true,
       NonExpired |-> S_true,
       ExpiredDate |-> <<>>,
       Download |-> S_true,
       Photo |-> Undef ]

(***************************************************************************)
(* mapRowToUpdateProfile: the UpdateCard mapper.                           *)
(***************************************************************************)
\* MAX of mapRowToUpdateProfile
UpdMaxName == 40
UpdMaxDepartment == 30
UpdMaxCompany == 30
UpdMaxTitle == 25
UpdMaxPosition == 25
UpdMaxAddress1 == 50
UpdMaxEmail == 50
UpdMaxMobileNo == 20
UpdMaxVehicleNo == 15
UpdMaxStaffNo == 15

\* clip(v, m): trim, then cut to m characters (m = 0 means no limit)
clip(v, m) == IF v = Undef THEN <<>>
              ELSE LET sVal == Trim(v)
                   IN IF m # 0 /\ Len(sVal) > m THEN SubSeq(sVal, 1, m) ELSE sVal

\* messRaw.replace(/[^01]/g, '')
IsBit(c) == c \in {"0", "1"}
KeepBits(v) == SelectSeq(v, IsBit)

\* String(n) for an integer n >= 0
RECURSIVE NumToStr(_)
NumToStr(n) == IF n < 10 THEN <<DigitChars[n + 1]>>
               ELSE NumToStr(n \div 10) \o <<DigitChars[(n % 10) + 1]>>

\* /^\d+(\.\d+)?$/.test(v)
IsDecimalText(v) ==
  LET dots == {k \in 1..Len(v) : v[k] = "."}
  IN /\ v # <<>>
     /\ \A k \in 1..Len(v) : IsDigit(v[k]) \/ v[k] = "."
     /\ Cardinality(dots) <= 1
     /\ \A k \in dots : k > 1 /\ k < Len(v)

\* Math.floor(parseFloat(v)) for a v that passes IsDecimalText
WholePart(v) ==
  LET dots == {k \in 1..Len(v) : v[k] = "."}
  IN IF dots = {} THEN DigitsVal(v) ELSE DigitsVal(SubSeq(v, 1, Min(dots) - 1))

\* Days between 30 Dec 1899 (serial 0) and 1 Jan 1970
ExcelEpochOffset == 25569
\* A Date holds at most 8.64e15 ms, that is 100,000,000 days, either side of 1970
MaxDateDays == 100000000

\* Month names read one place too far
MonthsFromFeb == << <<"F","e","b">>, <<"M","a","r">>, <<"A","p","r">>, <<"M","a","y">>,
                    <<"J","u","n">>, <<"J","u","l">>, <<"A","u","g">>, <<"S","e","p">>,
                    <<"O","c","t">>, <<"N","o","v">>, <<"D","e","c">>, <<"J","a","n">> >>

Months == << <<"J","a","n">>, <<"F","e","b">>, <<"M","a","r">>, <<"A","p","r">>,
             <<"M","a","y">>, <<"J","u","n">>, <<"J","u","l">>, <<"A","u","g">>,
             <<"S","e","p">>, <<"O","c","t">>, <<"N","o","v">>, <<"D","e","c">> >>

\* getUTCDate / getUTCMonth / getUTCFullYear of the instant `days` whole days
\* after 1 Jan 1970 (proleptic Gregorian calendar)
UTCDateOfDays(days) ==
  LET z == days + 719468
      era == z \div 146097
      doe == z - era * 146097
      yoe == (doe - (doe \div 1460) + (doe \div 36524) - (doe \div 146096)) \div 365
      doy == doe - (365 * yoe + (yoe \div 4) - (yoe \div 100))
      mp == (5 * doy + 2) \div 153
      d == doy - ((153 * mp + 2) \div 5) + 1
      m == IF mp < 10 THEN mp + 3 ELSE mp - 9
      y == yoe + era * 400 + (IF m <= 2 THEN 1 ELSE 0)
  IN [day |-> d, month |-> m, year |-> y]

\* normalizeExcelDate of mapRowToUpdateProfile.  The fraction of a serial is a
\* time of day and leaves the UTC calendar date alone.
normalizeExcelDate(val) ==
  IF val = Undef THEN <<>>
  ELSE LET sVal == Trim(val)
       IN IF sVal = <<>> THEN <<>>
          ELSE IF IsDecimalText(sVal)
                  /\ LET dots == {k \in 1..Len(sVal) : sVal[k] = "."}
                         whole == IF dots = {} THEN Len(sVal) ELSE Min(dots) - 1
                         nonZero == {k \in 1..whole : sVal[k] # "0"}
                     IN \* a serial of more than nine digits is past the range of Date
                        /\ (nonZero = {} \/ whole - Min(nonZero) < 9)
                        /\ WholePart(sVal) - ExcelEpochOffset < MaxDateDays
               THEN LET d == UTCDateOfDays(WholePart(sVal) - ExcelEpochOffset)
                    IN NumToStr(d.day) \o <<" ">> \o Months[d.month] \o <<" ">> \o NumToStr(d.year)
               ELSE sVal

\* normalizeExcelDate of the script's single-card mode: the same conversion,
\* with undefined for a missing or blank value
cliNormalizeExcelDate(val) ==
  IF val = Undef \/ Trim(val) = <<>> THEN Undef ELSE normalizeExcelDate(val)

mapRowToUpdateProfile(row) ==
  LET cardNo == Substring0(s(Cols(row, <<"CARD NO", "Card No", "CardNo", "Card Number">>)), CardNoMax)
      name == clip(s(Cols(row, <<"NAME", "Name", "Card Name", "Employee Name">>)), UpdMaxName)
      company == clip(s(Cols(row, <<"COMPANY", "Company">>)), UpdMaxCompany)
      staffNo == clip(s(Cols(row, <<"STAFF ID", "Staff No", "Employee ID", "ID">>)), UpdMaxStaffNo)
      department == clip(s(Cols(row, <<"DEPARTMENT", "Department">>)), UpdMaxDepartment)
      title == clip(s(Cols(row, <<"TITLE", "Title">>)), UpdMaxTitle)
      position == clip(s(Cols(row, <<"POSITION", "Position">>)), UpdMaxPosition)
      gentle == s(Cols(row, <<"GENDER", "Gender", "Gentle">>))
      ktpPassport == s(Cols(row, <<"KTP/PASPORT NO", "KTP/PASSPORT NO", "NRIC/Passport">>))
      dob == normalizeExcelDate(s(Cols(row, <<"DATE OF BIRTH", "DOB">>)))
      address == clip(s(Cols(row, <<"ADDRESS", "Address">>)), UpdMaxAddress1)
      mobile == clip(s(Cols(row, <<"PHONE NO", "Mobile No", "Phone">>)), UpdMaxMobileNo)
      joining == normalizeExcelDate(s(Cols(row, <<"DATE OF HIRE", "Joining Date">>)))
      resign == normalizeExcelDate(s(Cols(row, <<"WORK PERIOD END", "Resign Date">>)))
      race == s(Cols(row, <<"RACE", "Race">>))
      cardStatus == ToLower(s(Cols(row, <<"CARD STATUS", "Status", "STATUS">>)))
      activeStatus == IF Truthy(cardStatus)
                      THEN IF Includes(cardStatus, S_active) THEN S_true
                           ELSE IF Includes(cardStatus, S_inactive) THEN S_false ELSE S_true
                      ELSE S_true
      vehicleNoExplicit == s(Cols(row, <<"VEHICLE NO", "Vehicle No", "VehicleNo">>))
      messRaw == s(Cols(row, <<"MESSHALL", "MessHall", "Mess Hall">>))
      mess == ToLower(messRaw)
      messDigits == KeepBits(messRaw)
      vehicle0 == IF ~Truthy(vehicleNoExplicit)
                  THEN IF Includes(mess, S_makarti) THEN S_MakartiMessHall
                       ELSE IF Includes(mess, S_labota) THEN S_LabotaMesshall
                       ELSE S_LocalHireNoAccess
                  ELSE vehicleNoExplicit
      access0 == IF ~Truthy(vehicleNoExplicit)
                 THEN IF messDigits = S_00 \/ Includes(mess, S_noaccess) \/ Includes(mess, S_localhire) THEN S_00
                      ELSE IF messDigits = S_01 \/ Includes(mess, S_labota) THEN S_01
                      ELSE IF messDigits = S_10 \/ Includes(mess, S_makarti) THEN S_10
                      ELSE IF messDigits = S_11 \/ (Includes(mess, S_makarti) /\ Includes(mess, S_labota)) THEN S_11
                      ELSE <<>>
                 ELSE IF messDigits = S_00 THEN S_00
                      ELSE IF messDigits = S_01 THEN S_01
                      ELSE IF messDigits = S_10 THEN S_10
                      ELSE IF messDigits = S_11 THEN S_11
                      ELSE <<>>
      accessLevelExplicit == s(Cols(row, <<"ACCESS LEVEL", "Access Level", "AccessLevel">>))
      access1 == IF ~Truthy(access0) /\ Truthy(accessLevelExplicit) THEN accessLevelExplicit ELSE access0
      accessLevel == IF ~Truthy(access1) THEN DEFAULT_ACCESS_LEVEL ELSE access1
      faceAccessLevelExplicit == s(Cols(row, <<"FACE ACCESS LEVEL", "Face Access Level", "FaceAccessLevel">>))
      liftAccessLevelExplicit == s(Cols(row, <<"LIFT ACCESS LEVEL", "Lift Access Level", "LiftAccessLevel">>))
      v == ToLower(vehicle0)
      vehicleNo == IF Truthy(vehicle0)
                   THEN clip(IF Includes(v, S_makarti) THEN S_Makarti
                             ELSE IF Includes(v, S_labota) THEN S_Labota
                             ELSE IF Includes(v, S_local) \/ Includes(v, S_noaccess) THEN S_NoAccess
                             ELSE vehicle0, UpdMaxVehicleNo)
                   ELSE vehicle0
  IN [ CardNo |-> cardNo,
       Name |-> name,
       Company |-> company,
       Department |-> department,
       StaffNo |-> staffNo,
       Title |-> title,
       Position |-> position,
       Gentle |-> gentle,
       NRIC |-> ktpPassport,
       Passport |-> <<>>,
       Race |-> race,
       DOB |-> dob,
       JoiningDate |-> joining,
       ResignDate |-> resign,
       Address1 |-> address,
       Email |-> <<>>,
       MobileNo |-> mobile,
       ActiveStatus |-> activeStatus,
       NonExpired |-> S_true,
       ExpiredDate |-> <<>>,
       AccessLevel |-> accessLevel,
       FaceAccessLevel |-> Or2(faceAccessLevelExplicit, DEFAULT_FACE_ACCESS_LEVEL),
       LiftAccessLevel |-> Or2(liftAccessLevelExplicit, DEFAULT_LIFT_ACCESS_LEVEL),
       VehicleNo |-> vehicleNo,
       Download |-> S_true,
       Photo |-> Undef ]

(***************************************************************************)
(* Records with optional fields (JavaScript objects).                      *)
(***************************************************************************)
Has(r, f) == f \in DOMAIN r
Get(r, f) == IF f \in DOMAIN r THEN r[f] ELSE Undef
Put(r, f, v) == [k \in (DOMAIN r) \cup {f} |-> IF k = f THEN v ELSE r[k]]

(***************************************************************************)
(* Photo files of the directory the input file lives in.                   *)
(***************************************************************************)
B64Alphabet == <<"A","B","C","D","E","F","G","H","I","J","K","L","M","N","O","P","Q","R","S","T","U","V","W","X","Y","Z","a","b","c","d","e","f","g","h","i","j","k","l","m","n","o","p","q","r","s","t","u","v","w","x","y","z","0","1","2","3","4","5","6","7","8","9","+","/">>

\* Buffer.toString('base64')
RECURSIVE Base64(_)
Base64(bytes) ==
  IF bytes = <<>> THEN <<>>
  ELSE IF Len(bytes) = 1
       THEN <<B64Alphabet[(bytes[1] \div 4) + 1], B64Alphabet[((bytes[1] % 4) * 16) + 1], "=", "=">>
  ELSE IF Len(bytes) = 2
       THEN <<B64Alphabet[(bytes[1] \div 4) + 1],
              B64Alphabet[((bytes[1] % 4) * 16 + (bytes[2] \div 16)) + 1],
              B64Alphabet[((bytes[2] % 16) * 4) + 1], "=">>
  ELSE <<B64Alphabet[(bytes[1] \div 4) + 1],
         B64Alphabet[((bytes[1] % 4) * 16 + (bytes[2] \div 16)) + 1],
         B64Alphabet[((bytes[2] % 16) * 4 + (bytes[3] \div 64)) + 1],
         B64Alphabet[(bytes[3] % 64) + 1]>> \o Base64(SubSeq(bytes, 4, Len(bytes)))

Ext_jpg == <<".","j","p","g">>
Ext_jpeg == <<".","j","p","e","g">>
Ext_png == <<".","p","n","g">>

\* The photo files present next to the input file: name -> bytes
PhotoFiles == { [name |-> <<"E","7","7">> \o Ext_png, bytes |-> <<255, 216, 255, 224>>] }

existsSync(fname) == \E f \in PhotoFiles : f.name = fname
readFileSync(fname) == (CHOOSE f \in PhotoFiles : f.name = fname).bytes

\* Candidate file names of tryAttachPhoto and photoExists, in the order tried
PhotoCandidates(cardNo, staffNo) ==
  (IF Truthy(cardNo) THEN <<cardNo \o Ext_jpg, cardNo \o Ext_jpeg, cardNo \o Ext_png>> ELSE <<>>)
  \o (IF Truthy(staffNo) THEN <<staffNo \o Ext_jpg, staffNo \o Ext_jpeg, staffNo \o Ext_png>> ELSE <<>>)

\* tryAttachPhoto: the profile with the first existing candidate attached
tryAttachPhoto(profile) ==
  LET cands == PhotoCandidates(profile.CardNo, Get(profile, "StaffNo"))
      hits == {k \in 1..Len(cands) : existsSync(cands[k])}
  IN IF hits = {} THEN [profile |-> profile, hasPhoto |-> FALSE]
     ELSE [profile |-> Put(profile, "Photo", Base64(readFileSync(cands[Min(hits)]))),
           hasPhoto |-> TRUE]

\* photoExists: the same lookup without reading the file
photoExists(cardNo, staffNo) ==
  LET cands == PhotoCandidates(cardNo, staffNo)
  IN \E k \in 1..Len(cands) : existsSync(cands[k])

(***************************************************************************)
(* The request envelopes.  An envelope is modelled by its operation, the   *)
(* elements written before the CardProfile block and the elements of the   *)
(* block, each with its tag and its text, in document order.               *)
(***************************************************************************)
EscapeChar(c) ==
  IF c = "&" THEN <<"&","a","m","p",";">>
  ELSE IF c = "<" THEN <<"&","l","t",";">>
  ELSE IF c = ">" THEN <<"&","g","t",";">>
  ELSE IF c = "\"" THEN <<"&","q","u","o","t",";">>
  ELSE IF c = "'" THEN <<"&","a","p","o","s",";">>
  ELSE <<c>>

RECURSIVE EscapeFrom(_, _)
EscapeFrom(v, k) == IF k > Len(v) THEN <<>> ELSE EscapeChar(v[k]) \o EscapeFrom(v, k + 1)

escapeXml(unsafe) == IF unsafe = Undef THEN <<>> ELSE EscapeFrom(unsafe, 1)

\* profile.f, undefined when the profile has no such field
Field(profile, f) == IF Has(profile, f) THEN profile[f] ELSE Undef

\* A CardProfile block that begins with Email
CardProfileTagsEmailFirst ==
  <<"Email", "CardNo", "Name", "CardPinNo", "CardType", "Department", "Company", "Gentle",
    "AccessLevel", "FaceAccessLevel", "LiftAccessLevel", "BypassAP", "ActiveStatus",
    "NonExpired", "ExpiredDate", "VehicleNo", "FloorNo", "UnitNo", "ParkingNo", "StaffNo",
    "Title", "Position", "NRIC", "Passport", "Race", "DOB", "JoiningDate", "ResignDate",
    "Address1", "Address2", "PostalCode", "City", "State", "MobileNo", "Photo",
    "Download">>

\* The elements of the CardProfile block, in the order both builders write them
CardProfileTags ==
  <<"CardNo", "Name", "CardPinNo", "CardType", "Department", "Company", "Gentle",
    "AccessLevel", "FaceAccessLevel", "LiftAccessLevel", "BypassAP", "ActiveStatus",
    "NonExpired", "ExpiredDate", "VehicleNo", "FloorNo", "UnitNo", "ParkingNo", "StaffNo",
    "Title", "Position", "NRIC", "Passport", "Race", "DOB", "JoiningDate", "ResignDate",
    "Address1", "Address2", "PostalCode", "City", "State", "Email", "MobileNo", "Photo",
    "Download">>

\* The text buildAddCardEnvelope puts into one element
addCardText(profile, tag) ==
  IF tag = "Photo" THEN (IF Truthy(Field(profile, tag)) THEN escapeXml(profile.Photo) ELSE <<>>)
  ELSE IF tag = "BypassAP" THEN escapeXml(Or2(Field(profile, tag), S_false))
  ELSE IF tag \in {"CardNo", "Name", "Department", "Company", "AccessLevel", "FaceAccessLevel",
                   "ActiveStatus", "NonExpired", "ExpiredDate", "Email", "MobileNo", "Download"}
       THEN escapeXml(Field(profile, tag))
  ELSE escapeXml(Or2(Field(profile, tag), <<>>))

buildAddCardEnvelope(profile) ==
  [operation |-> "AddCard",
   before |-> <<>>,
   CardProfile |-> [k \in 1..Len(CardProfileTags) |->
     [tag |-> CardProfileTags[k], text |-> addCardText(profile, CardProfileTags[k])]]]

\* The text buildUpdateCardEnvelope puts into one element
updateCardText(profile, tag) ==
  IF tag = "Photo" THEN (IF Truthy(Field(profile, tag)) THEN escapeXml(profile.Photo) ELSE <<>>)
  ELSE IF tag = "CardNo" THEN escapeXml(Field(profile, tag))
  ELSE IF tag = "BypassAP" THEN escapeXml(Or2(Field(profile, tag), S_false))
  ELSE IF tag \in {"ActiveStatus", "NonExpired", "Download"}
       THEN escapeXml(Or2(Field(profile, tag), S_true))
  ELSE escapeXml(Or2(Field(profile, tag), <<>>))

buildUpdateCardEnvelope(profile) ==
  [operation |-> "UpdateCard",
   before |-> <<[tag |-> "CardNo", text |-> escapeXml(Field(profile, "CardNo"))]>>,
   CardProfile |-> [k \in 1..Len(CardProfileTags) |->
     [tag |-> CardProfileTags[k], text |-> updateCardText(profile, CardProfileTags[k])]]]

\* What replaces a photo in a logged envelope
S_redacted == <<"[","r","e","d","a","c","t","e","d","]">>

\* The tag names /<Photo>...<\/Photo>/i matches
PhotoTagNames == {"Photo", "photo", "PHOTO"}

\* An envelope logged as it was sent
keepEnvelope(envelope) == envelope

\* redactEnvelope: the first Photo element of the text, wherever it stands,
\* keeps its tags and loses its content; an empty or blank one is written empty
redactEnvelope(envelope) ==
  LET all == envelope.before \o envelope.CardProfile
      hits == {k \in 1..Len(all) : all[k].tag \in PhotoTagNames}
      red == IF hits = {} THEN all
             ELSE [all EXCEPT ![Min(hits)].text = IF Trim(@) = <<>> THEN <<>> ELSE S_redacted]
  IN [envelope EXCEPT !.before = SubSeq(red, 1, Len(envelope.before)),
                      !.CardProfile = SubSeq(red, Len(envelope.before) + 1, Len(red))]

(***************************************************************************)
(* Inputs: the rows of the input file, the caller's overrides and the      *)
(* answers of the access-control endpoint.                                 *)
(***************************************************************************)
\* A row without a card number whose photo is filed under its staff number
RowNoCard ==
  ("Card No" :> <<>>) @@ ("Name" :> <<"B","o","b">>) @@ ("Employee ID" :> <<"E","7","7">>)
  @@ ("Department" :> <<"O","p","s">>) @@ ("Company" :> <<>>)

\* A row with a card number and over-long text in every clipped column
RowLong ==
  ("Card No" :> <<" ","1","2","3","4","5","6","7","8","9","0","1","2","3"," ">>) @@ ("Name" :> Rep("n", 55)) @@ ("Employee ID" :> Rep("7", 20))
  @@ ("Department" :> Rep("d", 45)) @@ ("Company" :> Rep("c", 52))
  @@ ("Title" :> Rep("t", 30)) @@ ("Position" :> Rep("p", 51)) @@ ("Address" :> Rep("a", 60))
  @@ ("Phone" :> Rep("5", 25)) @@ ("Vehicle No" :> <<"T","r","u","c","k"," ","B","1","2","3","4","X","Y","Z"," ","S","i","t","e","7">>)

RowTypes == {RowNoCard, RowLong}

\* Every input of at most MaxRows rows
RowLists == UNION {[1..n -> RowTypes] : n \in 0..MaxRows}

\* Override lists of the batch requests: { index, cardNo?, downloadCard? }
OverrideLists ==
  { <<>>,
    << [index |-> 0, cardNo |-> <<" ">>] >>,
    << [index |-> 1, cardNo |-> <<" ","9","9","9","9","9","9","9","9","9","9","9","9">>, downloadCard |-> FALSE],
       [index |-> 2, cardNo |-> <<>>] >> }

NoResp == [type |-> "none", httpStatus |-> 0, ErrCode |-> Undef, ErrMessage |-> Undef, message |-> Undef]
Http(st, code, msg) == [type |-> "http", httpStatus |-> st, ErrCode |-> code, ErrMessage |-> msg, message |-> Undef]
Throw(msg) == [type |-> "throw", httpStatus |-> 0, ErrCode |-> Undef, ErrMessage |-> Undef, message |-> msg]

M_Truncated == <<"D","a","t","a"," ","w","o","u","l","d"," ","b","e"," ","T","r","u","n","c","a","t","e","d">>
M_Exists == <<"C","a","r","d"," ","e","x","i","s","t","s">>
M_FetchFailed == <<"f","e","t","c","h"," ","f","a","i","l","e","d">>

\* What a call to the endpoint can come back with: the HTTP status and the
\* content of the ErrCode and ErrMessage tags of the body (Undef: no such
\* tag), or an exception of fetch
Responses ==
  { Http(200, <<"0">>, Undef),
    Http(200, <<"1">>, M_Exists),
    Http(200, <<>>, Undef),
    Http(299, Undef, Undef),
    Http(200, <<"5">>, M_Truncated),
    Http(300, <<"0">>, Undef),
    Throw(M_FetchFailed) }

\* response.ok of fetch
ResOk(st) == st >= 200 /\ st <= 299

\* postAddCard: /<ErrCode>(.*?)<\/ErrCode>/ takes the tag's content as it is,
\* and does not match a content that holds a line break
postAddCard(raw) ==
  LET pick(c) == IF c = Undef \/ \E k \in 1..Len(c) : c[k] = "\n" THEN Undef ELSE c
  IN [status |-> IF ResOk(raw.httpStatus) THEN "ok" ELSE "error",
      httpStatus |-> raw.httpStatus,
      errCode |-> pick(raw.ErrCode),
      errMessage |-> pick(raw.ErrMessage)]

\* postUpdateCard: /<ErrCode>([\s\S]*?)<\/ErrCode>/i, content trimmed
postUpdateCard(raw) ==
  LET pick(c) == IF c = Undef THEN Undef ELSE Trim(c)
  IN [status |-> IF ResOk(raw.httpStatus) THEN "ok" ELSE "error",
      httpStatus |-> raw.httpStatus,
      errCode |-> pick(raw.ErrCode),
      errMessage |-> pick(raw.ErrMessage)]

(***************************************************************************)
(* The same two parsers on the text of a body.                             *)
(***************************************************************************)
\* Character c of the text is character d of the pattern; under the i flag
\* the case of letters is ignored
SameChar(c, d, ignoreCase) == IF ignoreCase THEN ToLowerChar(c) = ToLowerChar(d) ELSE c = d

\* The pattern stands in the text at position k
StandsAt(text, pat, k, ignoreCase) ==
  /\ k >= 1 /\ k + Len(pat) - 1 <= Len(text)
  /\ \A j \in 1..Len(pat) : SameChar(text[k + j - 1], pat[j], ignoreCase)

\* text.match(/<tag>(.*?)<\/tag>/) and, with both flags set,
\* text.match(/<tag>([\s\S]*?)<\/tag>/i): the content of the leftmost match,
\* the shortest from its start; `.` does not match a line break
matchTag(text, tag, ignoreCase, acrossLines) ==
  LET open == <<"<">> \o tag \o <<">">>
      close == <<"<","/">> \o tag \o <<">">>
      closeAfter(p) == {q \in (p + Len(open))..Len(text) : StandsAt(text, close, q, ignoreCase)}
      content(p) == SubSeq(text, p + Len(open), Min(closeAfter(p)) - 1)
      starts == {p \in 1..Len(text) :
                   /\ StandsAt(text, open, p, ignoreCase)
                   /\ closeAfter(p) # {}
                   /\ acrossLines \/ \A k \in 1..Len(content(p)) : content(p)[k] # "\n"}
  IN IF starts = {} THEN Undef ELSE content(Min(starts))

\* String(m[1]).trim() of a match, undefined without a match
trimmedMatch(m) == IF m = Undef THEN Undef ELSE Trim(m)

T_ErrCode == <<"E","r","r","C","o","d","e">>
T_ErrMessage == <<"E","r","r","M","e","s","s","a","g","e">>
T_CardID == <<"C","a","r","d","I","D">>
T_ID == <<"I","D">>
T_MediaID == <<"M","e","d","i","a","I","D">>

\* What postAddCard returns for a body
parseAddCard(st, text) ==
  [status |-> IF ResOk(st) THEN "ok" ELSE "error",
   httpStatus |-> st,
   errCode |-> matchTag(text, T_ErrCode, FALSE, FALSE),
   errMessage |-> matchTag(text, T_ErrMessage, FALSE, FALSE),
   id |-> IF matchTag(text, T_CardID, FALSE, FALSE) # Undef
          THEN matchTag(text, T_CardID, FALSE, FALSE)
          ELSE matchTag(text, T_ID, FALSE, FALSE)]

\* What postUpdateCard returns for a body
parseUpdateCard(st, text) ==
  [status |-> IF ResOk(st) THEN "ok" ELSE "error",
   httpStatus |-> st,
   errCode |-> trimmedMatch(matchTag(text, T_ErrCode, TRUE, TRUE)),
   errMessage |-> trimmedMatch(matchTag(text, T_ErrMessage, TRUE, TRUE)),
   id |-> trimmedMatch(matchTag(text, T_MediaID, TRUE, TRUE))]

\* Bodies the endpoint may answer with
ResponseBodies ==
  { <<"<","E","r","r","C","o","d","e",">","0","<","/","E","r","r","C","o","d","e",">">>,
    <<"<","E","r","r","C","o","d","e",">","\n","0","\n","<","/","E","r","r","C","o","d","e",">","<","E","r","r","M","e","s","s","a","g","e",">","\n","o","k"," ","<","/","E","r","r","M","e","s","s","a","g","e",">">>,
    <<"<","e","r","r","c","o","d","e",">"," ","0"," ","<","/","e","r","r","c","o","d","e",">","<","M","E","D","I","A","I","D",">","7","<","/","M","E","D","I","A","I","D",">","<","c","a","r","d","i","d",">","7","<","/","c","a","r","d","i","d",">">>,
    <<"<","E","r","r","C","o","d","e",">"," ","0"," ","<","/","E","r","r","C","o","d","e",">","<","C","a","r","d","I","D",">"," ","7"," ","<","/","C","a","r","d","I","D",">","<","M","e","d","i","a","I","D",">"," ","7"," ","<","/","M","e","d","i","a","I","D",">">>,
    <<"<","a","/",">">>,
    <<"<","E","r","r","C","o","d","e",">","5","<","/","E","r","r","C","o","d","e",">","<","E","r","r","M","e","s","s","a","g","e",">","x","<","/","E","r","r","M","e","s","s","a","g","e",">","<","E","r","r","C","o","d","e",">","0","<","/","E","r","r","C","o","d","e",">","<","I","D",">","3","<","/","I","D",">">>,
    <<"<","E","r","r","C","o","d","e",">","\n","<","/","E","r","r","C","o","d","e",">","<","E","r","r","C","o","d","e",">","1","<","/","E","r","r","C","o","d","e",">">> }

(***************************************************************************)
(* Result classification.                                                  *)
(***************************************************************************)
Is2xx(st) == st >= 200 /\ st < 300

\* bizSuccess of the create batches
bizSuccess(resp) ==
  LET errCodeNum == IF resp.errCode # Undef THEN Number(resp.errCode) ELSE NaN
  IN Is2xx(resp.httpStatus) /\ (NumIs(errCodeNum, 0) \/ NumIs(errCodeNum, 1))

\* The create rule in the place of the update rule
okByCreateRule(resp) == bizSuccess(resp)

\* ok of the update operations
updateOk(resp) ==
  resp.status = "ok" /\ (~Truthy(resp.errCode) \/ resp.errCode = <<"0">>)

S_HTTP == <<"H","T","T","P"," ">>

\* The error entry a create batch records for an answer that is no success
createError(resp, cardNo) ==
  IF ~Is2xx(resp.httpStatus)
  THEN [code |-> "HTTP_ERROR", message |-> S_HTTP \o NumToStr(resp.httpStatus), cardNo |-> cardNo]
  ELSE [code |-> "VAULT_ERROR", message |-> Or2(resp.errMessage, S_UnknownError),
        errCode |-> resp.errCode, cardNo |-> cardNo]

\* The error entry an update batch records for an answer that is no success
updateError(resp, cardNo, index) ==
  [code |-> "VAULT_ERROR", message |-> Or2(resp.errMessage, S_UnknownError),
   errCode |-> resp.errCode, cardNo |-> cardNo, index |-> index]

(***************************************************************************)
(* Overrides.                                                              *)
(***************************************************************************)
\* overrideMap.get(i) of the create batches: the last override with index i,
\* its cardNo trimmed and cut to 10 characters
overrideMapGet(ovs, idx) ==
  LET hits == {k \in 1..Len(ovs) : ovs[k].index = idx}
      last == CHOOSE k \in hits : \A j \in hits : j <= k
      o == ovs[last]
      withCard == IF Has(o, "cardNo")
                  THEN [cardNo |-> Substring0(Trim(o.cardNo), CardNoMax)] ELSE <<>>
  IN IF hits = {} THEN [found |-> FALSE, item |-> <<>>]
     ELSE [found |-> TRUE,
           item |-> IF Has(o, "downloadCard")
                    THEN Put(withCard, "downloadCard", o.downloadCard) ELSE withCard]

\* The override step of registerJobToVault and registerCsvPathToVault
applyCreateOverride(profile, item) ==
  LET p1 == IF Has(item, "cardNo") THEN Put(profile, "CardNo", Or2(item.cardNo, <<>>)) ELSE profile
  IN IF Has(item, "downloadCard")
     THEN Put(p1, "DownloadCard", IF item.downloadCard THEN S_true ELSE S_false)
     ELSE p1

\* overrides.find(o => o.index === i) of updateCsvPathToVault: the first one
overridesFind(ovs, idx) ==
  LET hits == {k \in 1..Len(ovs) : ovs[k].index = idx}
  IN IF hits = {} THEN [found |-> FALSE, item |-> <<>>]
     ELSE [found |-> TRUE, item |-> ovs[CHOOSE k \in hits : \A j \in hits : k <= j]]

\* The override step of updateCsvPathToVault
applyUpdateOverride(profile, o) ==
  LET p1 == IF Has(o, "cardNo") /\ Truthy(o.cardNo)
            THEN Put(profile, "CardNo", Substring0(s(o.cardNo), CardNoMax)) ELSE profile
  IN IF Has(o, "downloadCard")
     THEN Put(p1, "Download", IF o.downloadCard THEN S_true ELSE S_false)
     ELSE p1

(***************************************************************************)
(* State.                                                                  *)
(***************************************************************************)
VARIABLES
  op,          \* the operation this run performs
  dirExists,   \* the output directory exists
  fileExists,  \* the input file exists
  fileRows,    \* the rows of the input file
  overrides,   \* the overrides of a batch request
  pc,          \* where the run stands
  i,           \* the batch loop's row index (zero-based)
  rows,        \* the rows the operation read
  cur,         \* the profile of the row whose call is in flight
  result,      \* the summary the batch builds
  sent,        \* the calls made to the endpoint, with their answers
  regLog,      \* vault-registration-log.jsonl
  updLog,      \* vault-update-log.jsonl
  reply,       \* what the caller is told: the server's success flag
  reqIndex,    \* the row index of a single-row request
  reqOverride, \* the override of a single-row request
  single,      \* what the last updateCsvRowToVault or updateProfileToVault call returned
  cli,         \* the batch script's retry bookkeeping and exit status
  past,        \* the row indexes of the single-row requests already served
  applied,     \* a mapper or one of its helpers applied on its own: function, argument, result
  tasks,       \* two runs or requests the server handles at the same time, each with its position
  pool         \* the global database connection pool of the server: "open" or "closed"

\* What the caller and the file system hand to the run; no step of the run changes them
inputs == <<op, dirExists, fileExists, fileRows, overrides, reqIndex, reqOverride>>

\* What only overlapping runs and requests use
overlap == <<tasks, pool>>

vars == <<inputs, pc, i, rows, cur, result, sent, regLog, updLog, reply, single, cli, past, applied, overlap>>

CreateOps == {"register", "registerCsv"}
BatchOps == CreateOps \cup {"updateCsv"}
UpdateBatchOps == {"updateCsv", "cli"}
\* updateCsvRowToVault called by the route, or directly as the exported function
SingleOps == {"updateRow", "updateRowCall"}
\* previewJobToVault, previewCsvPathToVault, previewUpdateCsvPathToVault
PreviewCreateOps == {"previewJob", "previewCsv"}
PreviewOps == PreviewCreateOps \cup {"previewUpdate"}
Ops == BatchOps \cup SingleOps \cup {"cli", "updateProfile"} \cup PreviewOps

EmptyResult == [attempted |-> 0, registered |-> 0, withPhoto |-> 0, withoutPhoto |-> 0,
                errors |-> <<>>, details |-> <<>>]

NoCur == [profile |-> <<>>, hasPhoto |-> FALSE]
NoReply == [done |-> FALSE, success |-> FALSE]
NoSingle == [called |-> FALSE]
NoApplied == [fn |-> "none", arg |-> <<>>, out |-> <<>>]
NoCli == [retryTargets |-> <<>>, pos |-> 0, retryUpdated |-> 0, retryErrors |-> <<>>, exitCode |-> -1]

\* Overrides of a single-row request to /api/vault/update-csv-row
SingleOverrides ==
  { <<>>,
    [cardNo |-> <<" ","9","9","9","9","9","9","9","9","9","9","9","9">>, downloadCard |-> FALSE, Name |-> Rep("N", 60)] }

\* One line of a JSON-lines audit log
Ev(event, index) == [event |-> event, index |-> index]

\* The line of a request event: the envelope is logged through redactEnvelope
EvRequest(event, index, envelope) ==
  [event |-> event, index |-> index, envelope |-> redactEnvelope(envelope)]

\* appendFileSync fails, and the failure is swallowed, when the directory is missing
LogTo(log, lines) == IF dirExists THEN log \o lines ELSE log

\* A call handed to fetch
Call(api, index, pass, profile) ==
  [api |-> api, index |-> index, pass |-> pass, profile |-> profile, answered |-> FALSE, resp |-> NoResp]

Init ==
  /\ op \in Ops
  /\ dirExists \in BOOLEAN
  /\ fileExists \in (IF dirExists THEN BOOLEAN ELSE {FALSE})
  /\ fileRows \in (IF fileExists THEN RowLists ELSE {<<>>})
  /\ overrides \in (IF fileExists /\ op \in BatchOps THEN OverrideLists ELSE {<<>>})
  /\ pc = "start"
  /\ i = 0
  /\ rows = <<>>
  /\ cur = NoCur
  /\ result = EmptyResult
  /\ sent = <<>>
  /\ regLog = <<>>
  /\ updLog = <<>>
  /\ reply = NoReply
  /\ reqIndex \in (IF op \in SingleOps THEN -1..MaxRows ELSE {0})
  /\ reqOverride \in (IF op \in SingleOps THEN SingleOverrides ELSE {<<>>})
  /\ single = NoSingle
  /\ cli = NoCli
  /\ past = <<>>
  /\ applied = NoApplied
  /\ tasks = <<>>
  /\ pool = "closed"

\* readRowsFromOutputDir / readRowsFromCsvPath: a missing or unreadable input gives no rows
readRows == IF fileExists THEN fileRows ELSE <<>>

(***************************************************************************)
(* registerJobToVault and registerCsvPathToVault.                          *)
(***************************************************************************)
Suffix(name) == IF op = "registerCsv" THEN name \o "_csv" ELSE name

\* A loop that stays on its row
sameRow(k) == k

\* A loop that passes over every other row
skipRow(k) == k + 2

\* i++ of the batch loops
nextRow(k) == k + 1

\* Up to the batch loop: the checks of the directory, the file and the rows
StartCreate ==
  /\ pc = "start" /\ op \in CreateOps
  /\ IF ~dirExists
     THEN /\ result' = [result EXCEPT !.errors = Append(@, [code |-> "OUTPUT_NOT_FOUND"])]
          /\ pc' = "returned"
          /\ UNCHANGED <<rows, regLog>>
     ELSE IF op = "registerCsv" /\ ~fileExists
     THEN /\ result' = [result EXCEPT !.errors = Append(@, [code |-> "CSV_NOT_FOUND"])]
          /\ pc' = "returned"
          /\ UNCHANGED <<rows, regLog>>
     ELSE IF Len(readRows) = 0
     THEN /\ result' = [result EXCEPT !.errors = Append(@, [code |-> "NO_ROWS"])]
          /\ regLog' = LogTo(regLog, <<Ev(Suffix("start"), -1), Ev(Suffix("no_rows"), -1)>>)
          /\ pc' = "returned"
          /\ UNCHANGED rows
     ELSE /\ rows' = readRows
          /\ regLog' = LogTo(regLog, <<Ev(Suffix("start"), -1), Ev(Suffix("override_map_ready"), -1)>>)
          /\ pc' = "loop"
          /\ UNCHANGED result
  /\ UNCHANGED <<inputs, overlap, past, applied, i, cur, sent, updLog, reply, single, cli>>

\* One pass of the loop body up to the await of postAddCard, or to `continue`
ProcessCreateRow ==
  /\ pc = "loop" /\ op \in CreateOps /\ i < Len(rows)
  /\ \E mapped \in {mapRowToProfile(rows[i + 1])}, ov \in {overrideMapGet(overrides, i)} :
     \E profile \in {IF ov.found THEN applyCreateOverride(mapped, ov.item) ELSE mapped},
        ovLines \in {IF ov.found THEN <<Ev(Suffix("override_applied"), i)>> ELSE <<>>} :
     \E att \in {tryAttachPhoto(profile)} :
        IF ~Truthy(profile.CardNo)
        THEN /\ result' = [result EXCEPT
                  !.attempted = @ + 1,
                  !.errors = Append(@, [code |-> "CARD_NO_MISSING", message |-> S_CardNoRequired,
                                        index |-> i, name |-> profile.Name]),
                  !.details = Append(@, [cardNo |-> <<>>, name |-> profile.Name, hasPhoto |-> FALSE,
                                         respCode |-> "CARD_NO_MISSING", respMessage |-> S_CardNoRequired])]
             /\ regLog' = LogTo(regLog, <<Ev(Suffix("row_mapped"), i)>> \o ovLines
                                        \o <<Ev(Suffix("card_no_missing"), i)>>)
             /\ i' = nextRow(i)
             /\ UNCHANGED <<pc, cur, sent>>
        ELSE /\ result' = [result EXCEPT
                  !.attempted = @ + 1,
                  !.withPhoto = IF att.hasPhoto THEN @ + 1 ELSE @,
                  !.withoutPhoto = IF att.hasPhoto THEN @ ELSE @ + 1]
             /\ regLog' = LogTo(regLog, <<Ev(Suffix("row_mapped"), i)>> \o ovLines
                                        \o (IF op = "register" THEN <<Ev("photo_candidates", i)>> ELSE <<>>)
                                        \o <<Ev(Suffix("photo_attach_result"), i),
                                             EvRequest(Suffix("soap_request"), i, buildAddCardEnvelope(att.profile))>>)
             /\ cur' = att
             /\ sent' = Append(sent, Call("AddCard", i, 1, att.profile))
             /\ pc' = "await"
             /\ UNCHANGED i
  /\ UNCHANGED <<inputs, overlap, past, applied, rows, updLog, reply, single, cli>>

\* A call whose answer is never awaited stays in flight
leaveInFlight(raw) == sent

\* The answer sent[Len(sent)] gets
Answer(raw) == [sent EXCEPT ![Len(sent)] = [@ EXCEPT !.answered = TRUE, !.resp = raw]]

\* postAddCard returns or throws: classify, record, go to the next row
ReceiveCreate ==
  /\ pc = "await" /\ op \in CreateOps
  /\ \E raw \in Responses :
       /\ sent' = Answer(raw)
       /\ IF raw.type = "throw"
          THEN /\ result' = [result EXCEPT
                    !.errors = Append(@, [code |-> "REQUEST_FAILED", message |-> raw.message,
                                          cardNo |-> cur.profile.CardNo])]
               /\ regLog' = LogTo(regLog, <<Ev(Suffix("error"), i)>>)
          ELSE LET resp == postAddCard(raw)
               IN /\ result' = [result EXCEPT
                       !.registered = IF bizSuccess(resp) THEN @ + 1 ELSE @,
                       !.errors = IF bizSuccess(resp) THEN @
                                  ELSE Append(@, createError(resp, cur.profile.CardNo)),
                       !.details = Append(@, [cardNo |-> cur.profile.CardNo, name |-> cur.profile.Name,
                                              hasPhoto |-> cur.hasPhoto, respCode |-> resp.errCode,
                                              respMessage |-> resp.errMessage])]
                  /\ regLog' = LogTo(regLog, <<Ev(Suffix("soap_response"), i)>>)
  /\ i' = nextRow(i)
  /\ cur' = NoCur
  /\ pc' = "loop"
  /\ UNCHANGED <<inputs, overlap, past, applied, rows, updLog, reply, single, cli>>

\* The loop is over: the summary is logged and returned
CompleteCreate ==
  /\ pc = "loop" /\ op \in CreateOps /\ i >= Len(rows)
  /\ regLog' = LogTo(regLog, <<Ev(Suffix("complete"), -1)>>)
  /\ pc' = "returned"
  /\ UNCHANGED <<inputs, overlap, past, applied, i, rows, cur, result, sent, updLog, reply, single, cli>>

(***************************************************************************)
(* updateCsvPathToVault.                                                   *)
(***************************************************************************)
StartUpdate ==
  /\ pc = "start" /\ (op = "updateCsv" \/ (op = "cli" /\ fileExists))
  /\ rows' = readRows
  /\ result' = [result EXCEPT !.attempted = Len(readRows)]
  /\ updLog' = LogTo(updLog, <<Ev("update_batch_start", -1)>>)
  /\ pc' = "loop"
  /\ UNCHANGED <<inputs, overlap, past, applied, i, cur, sent, regLog, reply, single, cli>>

ProcessUpdateRow ==
  /\ pc = "loop" /\ op \in UpdateBatchOps /\ i < Len(rows)
  /\ \E mapped \in {mapRowToUpdateProfile(rows[i + 1])}, ov \in {overridesFind(overrides, i)} :
     \E profile \in {IF ov.found THEN applyUpdateOverride(mapped, ov.item) ELSE mapped},
        ovLines \in {IF ov.found THEN <<Ev("override_applied_update", i)>> ELSE <<>>} :
     \E att \in {tryAttachPhoto(profile)} :
        /\ result' = [result EXCEPT
               !.withPhoto = IF att.hasPhoto THEN @ + 1 ELSE @,
               !.withoutPhoto = IF att.hasPhoto THEN @ ELSE @ + 1]
        /\ updLog' = LogTo(updLog, <<Ev("row_mapped_update", i), Ev("row_access_level_resolved_update", i)>>
                                   \o ovLines
                                   \o <<Ev("photo_attach_result_update", i),
                                        EvRequest("soap_request_update", i, buildUpdateCardEnvelope(att.profile))>>)
        /\ cur' = att
        /\ sent' = Append(sent, Call("UpdateCard", i, 1, att.profile))
        /\ pc' = "await"
  /\ UNCHANGED <<inputs, overlap, past, applied, i, rows, regLog, reply, single, cli>>

ReceiveUpdate ==
  /\ pc = "await" /\ op \in UpdateBatchOps
  /\ \E raw \in Responses :
       /\ sent' = Answer(raw)
       /\ IF raw.type = "throw"
          THEN /\ result' = [result EXCEPT
                    !.errors = Append(@, [code |-> "REQUEST_FAILED", message |-> raw.message,
                                          cardNo |-> cur.profile.CardNo, index |-> i])]
               /\ updLog' = LogTo(updLog, <<Ev("error_update", i)>>)
          ELSE LET resp == postUpdateCard(raw)
               IN /\ result' = [result EXCEPT
                       !.registered = IF updateOk(resp) THEN @ + 1 ELSE @,
                       !.errors = IF updateOk(resp) THEN @
                                  ELSE Append(@, updateError(resp, cur.profile.CardNo, i)),
                       !.details = Append(@, [cardNo |-> cur.profile.CardNo, name |-> cur.profile.Name,
                                              hasPhoto |-> Truthy(cur.profile.Photo),
                                              respCode |-> resp.errCode, respMessage |-> resp.errMessage,
                                              department |-> cur.profile.Department,
                                              staffNo |-> cur.profile.StaffNo])]
                  /\ updLog' = LogTo(updLog, <<Ev("soap_response_update", i), Ev("row_update_complete", i)>>)
  /\ i' = nextRow(i)
  /\ cur' = NoCur
  /\ pc' = "loop"
  /\ UNCHANGED <<inputs, overlap, past, applied, rows, regLog, reply, single, cli>>

CompleteUpdate ==
  /\ pc = "loop" /\ op \in UpdateBatchOps /\ i >= Len(rows)
  /\ updLog' = LogTo(updLog, <<Ev("update_batch_complete", -1)>>)
  /\ pc' = "returned"
  /\ UNCHANGED <<inputs, overlap, past, applied, i, rows, cur, result, sent, regLog, reply, single, cli>>

(***************************************************************************)
(* The routes of server.js that run a batch and answer with a success flag.*)
(***************************************************************************)
\* res.json({ success: true, ...result }) of /api/vault/register and /register-csv
ReplyRegister ==
  /\ pc = "returned" /\ op \in CreateOps
  /\ reply' = [done |-> TRUE, success |-> TRUE]
  /\ pc' = "replied"
  /\ UNCHANGED <<inputs, overlap, past, applied, i, rows, cur, result, sent, regLog, updLog, single, cli>>

\* res.json({ success, ...result }) of /api/vault/update-csv
ReplyUpdate ==
  /\ pc = "returned" /\ op = "updateCsv"
  /\ reply' = [done |-> TRUE, success |-> (Len(result.errors) = 0)]
  /\ pc' = "replied"
  /\ UNCHANGED <<inputs, overlap, past, applied, i, rows, cur, result, sent, regLog, updLog, single, cli>>

(***************************************************************************)
(* updateCsvRowToVault: one row, by index.                                 *)
(***************************************************************************)
\* overrideKeys of updateCsvRowToVault
overrideKeys ==
  {"Name", "Department", "Company", "Gentle", "AccessLevel", "FaceAccessLevel", "LiftAccessLevel",
   "BypassAP", "ActiveStatus", "NonExpired", "ExpiredDate", "VehicleNo", "FloorNo", "UnitNo",
   "ParkingNo", "StaffNo", "Title", "Position", "NRIC", "Passport", "Race", "DOB", "JoiningDate",
   "ResignDate", "Address1", "Address2", "PostalCode", "City", "State", "Email", "MobileNo", "Download"}

\* The override step of updateCsvRowToVault: cardNo, downloadCard, then every
\* listed profile field the override carries
applySingleOverride(profile, o) ==
  LET p1 == applyUpdateOverride(profile, o)
  IN [k \in (DOMAIN p1) \cup ((DOMAIN o) \cap overrideKeys) |->
        IF k \in (DOMAIN o) \cap overrideKeys THEN o[k] ELSE p1[k]]

\* The profile updateCsvRowToVault submits for a row: mapped, overridden, photo attached
singleProfile(row, o) ==
  LET mapped == mapRowToUpdateProfile(row)
  IN tryAttachPhoto(IF DOMAIN o # {} THEN applySingleOverride(mapped, o) ELSE mapped)

\* What updateCsvRowToVault returns once the endpoint has answered or fetch has thrown
singleResult(att, raw) ==
  LET resp == postUpdateCard(raw)
      threw == raw.type = "throw"
      ok == ~threw /\ updateOk(resp)
      errors == IF threw THEN <<[code |-> "REQUEST_FAILED", message |-> raw.message,
                                 cardNo |-> att.profile.CardNo]>>
                ELSE IF ok THEN <<>>
                ELSE <<[code |-> "VAULT_ERROR", message |-> Or2(resp.errMessage, S_UnknownError),
                        errCode |-> resp.errCode, cardNo |-> att.profile.CardNo]>>
      details == IF threw THEN <<>>
                 ELSE <<[cardNo |-> att.profile.CardNo, name |-> att.profile.Name,
                         hasPhoto |-> Truthy(att.profile.Photo),
                         respCode |-> resp.errCode, respMessage |-> resp.errMessage,
                         department |-> att.profile.Department, staffNo |-> att.profile.StaffNo]>>
  IN [called |-> TRUE, attempted |-> 1,
      registered |-> IF ok THEN 1 ELSE 0,
      withPhoto |-> IF att.hasPhoto THEN 1 ELSE 0,
      withoutPhoto |-> IF att.hasPhoto THEN 0 ELSE 1,
      details |-> details, errors |-> errors,
      rowStatus |-> [ok |-> (Len(errors) = 0),
                     code |-> IF Len(details) > 0 THEN details[1].respCode ELSE Undef,
                     message |-> IF Len(details) > 0 THEN details[1].respMessage
                                 ELSE Or2(errors[1].message, Undef)]]

\* The lines updateCsvRowToVault logs before it awaits postUpdateCard
singleRequestLines(index, o, profile) ==
  <<Ev("single_row_mapped_update", index), Ev("single_row_access_level_resolved_update", index)>>
  \o (IF DOMAIN o # {} THEN <<Ev("single_override_applied_update", index)>> ELSE <<>>)
  \o <<Ev("single_photo_attach_result_update", index),
        EvRequest("single_soap_request_update", index, buildUpdateCardEnvelope(profile))>>

\* The lines it logs after the answer
singleResponseLines(index, raw) ==
  IF raw.type = "throw"
  THEN <<Ev("single_error_update", index), Ev("single_update_complete", index)>>
  ELSE <<Ev("single_soap_response_update", index)>>
       \o (IF Includes(ToLower(Or2(postUpdateCard(raw).errMessage, <<>>)), S_truncated)
           THEN <<Ev("single_field_length_summary", index)>> ELSE <<>>)
       \o <<Ev("single_row_update_complete", index), Ev("single_update_complete", index)>>

\* A summary that reports nothing
silentSummary ==
  [called |-> TRUE, attempted |-> 0, registered |-> 0, withPhoto |-> 0, withoutPhoto |-> 0,
   details |-> <<>>, errors |-> <<>>]

\* What updateCsvRowToVault returns for an index outside the rows
invalidIndexSummary ==
  [called |-> TRUE, attempted |-> 0, registered |-> 0, withPhoto |-> 0, withoutPhoto |-> 0,
   details |-> <<>>, errors |-> <<[code |-> "INDEX_OUT_OF_RANGE"]>>]

\* POST /api/vault/update-csv-row, or a direct call of updateCsvRowToVault, up
\* to the await of postUpdateCard
SingleRequest ==
  /\ pc = "start" /\ op \in SingleOps
  /\ IF op = "updateRow" /\ reqIndex < 0
     THEN \* 400: index must be a non-negative number
          /\ reply' = [done |-> TRUE, success |-> FALSE]
          /\ pc' = "replied"
          /\ UNCHANGED <<rows, cur, sent, updLog, single>>
     ELSE IF reqIndex < 0 \/ reqIndex >= Len(readRows)
     THEN /\ rows' = readRows
          /\ single' = invalidIndexSummary
          /\ updLog' = LogTo(updLog, <<Ev("single_update_invalid_index", reqIndex)>>)
          /\ pc' = "returned"
          /\ UNCHANGED <<cur, sent, reply>>
     ELSE \E att \in {singleProfile(readRows[reqIndex + 1], reqOverride)} :
             /\ rows' = readRows
             /\ cur' = att
             /\ sent' = Append(sent, Call("UpdateCard", reqIndex, 1, att.profile))
             /\ updLog' = LogTo(updLog, singleRequestLines(reqIndex, reqOverride, att.profile))
             /\ pc' = "singleAwait"
             /\ UNCHANGED <<single, reply>>
  /\ UNCHANGED <<inputs, overlap, past, applied, i, result, regLog, cli>>

SingleReceive ==
  /\ pc = "singleAwait" /\ op \in SingleOps
  /\ \E raw \in Responses :
       /\ sent' = Answer(raw)
       /\ single' = singleResult(cur, raw)
       /\ updLog' = LogTo(updLog, singleResponseLines(reqIndex, raw))
  /\ cur' = NoCur
  /\ pc' = "returned"
  /\ UNCHANGED <<inputs, overlap, past, applied, i, rows, result, regLog, reply, cli>>

\* res.json({ success, requestId, rowStatus, ...result })
ReplySingle ==
  /\ pc = "returned" /\ op = "updateRow"
  /\ reply' = [done |-> TRUE, success |-> (Len(single.errors) = 0)]
  /\ pc' = "replied"
  /\ UNCHANGED <<inputs, overlap, past, applied, i, rows, cur, result, sent, regLog, updLog, single, cli>>

\* The caller, once answered, asks for another row of the same file: a new
\* call of updateCsvRowToVault, whose locals start afresh
SingleAgain ==
  /\ \/ op = "updateRow" /\ pc = "replied"
     \/ op = "updateRowCall" /\ pc = "returned"
  /\ Len(past) + 1 < MaxRequests
  /\ past' = Append(past, reqIndex)
  /\ reqIndex' \in -1..MaxRows
  /\ pc' = "start"
  /\ rows' = <<>>
  /\ single' = NoSingle
  /\ reply' = NoReply
  /\ UNCHANGED <<op, dirExists, fileExists, fileRows, overrides, reqOverride, applied,
                 i, cur, result, sent, regLog, updLog, cli, overlap>>

(***************************************************************************)
(* updateProfileToVault: one profile handed in by the caller.              *)
(***************************************************************************)
\* A profile as the database route builds it
DbProfile ==
  [ CardNo |-> <<"1","2","3","4","5","6","7","8","9","0">>, Name |-> <<"A","n","n">>, Department |-> <<"O","p","s">>, Company |-> <<>>,
    StaffNo |-> <<"E","7","7">>, Download |-> S_true, Photo |-> Undef ]

ProfileRequest ==
  /\ pc = "start" /\ op = "updateProfile"
  /\ LET att == tryAttachPhoto(DbProfile)
     IN /\ cur' = att
        /\ sent' = Append(sent, Call("UpdateCard", -1, 1, att.profile))
        /\ updLog' = LogTo(updLog, <<EvRequest("single_soap_request_update", -1, buildUpdateCardEnvelope(att.profile))>>)
  /\ pc' = "profileAwait"
  /\ UNCHANGED <<inputs, overlap, past, applied, i, rows, result, regLog, reply, single, cli>>

\* The answer, and the route's reply: success is !!resp.ok, an exception is a 500
ProfileReceive ==
  /\ pc = "profileAwait" /\ op = "updateProfile"
  /\ \E raw \in Responses :
       /\ sent' = Answer(raw)
       /\ IF raw.type = "throw"
          THEN /\ single' = [called |-> TRUE, threw |-> TRUE]
               /\ reply' = [done |-> TRUE, success |-> FALSE]
               /\ UNCHANGED updLog
          ELSE LET resp == postUpdateCard(raw)
               IN /\ single' = [called |-> TRUE, threw |-> FALSE, ok |-> updateOk(resp),
                                code |-> resp.errCode, message |-> resp.errMessage]
                  /\ reply' = [done |-> TRUE, success |-> updateOk(resp)]
                  /\ updLog' = LogTo(updLog, <<Ev("single_soap_response_update", -1)>>)
  /\ cur' = NoCur
  /\ pc' = "replied"
  /\ UNCHANGED <<inputs, overlap, past, applied, i, rows, result, regLog, cli>>

(***************************************************************************)
(* updateFromExcel.js, batch mode: a first pass over every row, then one   *)
(* retry of the rows that failed with a truncation message.                *)
(***************************************************************************)
\* A retry table whose limits are tighter than the update mapper's
tightRetryMAX ==
  [Name |-> 3, Department |-> 3, Company |-> 3, Title |-> 3, Position |-> 3,
   Address1 |-> 3, Address2 |-> 3, Email |-> 3, MobileNo |-> 3, VehicleNo |-> 3,
   StaffNo |-> 3]

\* MAX of the auto-retry
RetryMAX == [Name |-> 50, Department |-> 50, Company |-> 50, Title |-> 50, Position |-> 50,
             Address1 |-> 50, Address2 |-> 50, Email |-> 50, MobileNo |-> 20, VehicleNo |-> 50,
             StaffNo |-> 15]

\* isTruncated(msg)
isTruncated(msg) == Includes(ToLower(Or2(msg, <<>>)), S_truncated)

\* A filter that keeps every error
keepEveryError(errs) == errs

\* result.errors.filter(e => isTruncated(e.message))
hasTruncatedMessage(e) == isTruncated(e.message)
filterTruncated(errs) == SelectSeq(errs, hasTruncatedMessage)

\* previewUpdateCsvPathToVault(...).details[idx].profile: the row mapped again
\* from the file, no photo loaded
previewProfile(idx) == mapRowToUpdateProfile(readRows[idx + 1])

\* An override that turns the Download flag off and cuts nothing
downloadOffOverride(profile) == [Download |-> S_false]

\* The override the retry builds from the previewed profile: every non-blank
\* field of the table cut to its maximum, and the Download flag as mapped
retryOverride(profile) ==
  LET keys == {k \in DOMAIN RetryMAX : Has(profile, k) /\ Truthy(profile[k])}
             \cup (IF Has(profile, "Download") THEN {"Download"} ELSE {})
  IN [k \in keys |-> IF k = "Download" THEN profile.Download
                     ELSE Substring0(profile[k], RetryMAX[k])]

\* The message of the first-pass error of the row being retried
firstPassMessage(res) == cli.retryTargets[cli.pos].message

\* The message kept for a row whose retry failed:
\* single.rowStatus.message || single.error || 'Unknown error'
retryMessage(res) == Or2(res.rowStatus.message, S_UnknownError)

\* The script ends at once when the input file is missing
CliMissingFile ==
  /\ pc = "start" /\ op = "cli" /\ ~fileExists
  /\ cli' = [cli EXCEPT !.exitCode = 1]
  /\ pc' = "exited"
  /\ UNCHANGED <<inputs, overlap, past, applied, i, rows, cur, result, sent, regLog, updLog, reply, single>>

\* After the first pass: done when nothing failed, otherwise pick the rows to retry
CliAfterFirstPass ==
  /\ pc = "returned" /\ op = "cli"
  /\ LET targets == filterTruncated(result.errors)
     IN IF Len(result.errors) = 0
        THEN /\ cli' = [cli EXCEPT !.exitCode = 0]
             /\ pc' = "exited"
        ELSE IF Len(targets) = 0
        THEN /\ cli' = [cli EXCEPT !.exitCode = 2]
             /\ pc' = "exited"
        ELSE /\ cli' = [cli EXCEPT !.retryTargets = targets, !.pos = 1]
             /\ pc' = "retry"
  /\ UNCHANGED <<inputs, overlap, past, applied, i, rows, cur, result, sent, regLog, updLog, reply, single>>

\* The retry of the next target, up to the await inside updateCsvRowToVault
CliRetrySend ==
  /\ pc = "retry" /\ op = "cli" /\ cli.pos <= Len(cli.retryTargets)
  /\ \E idx \in {cli.retryTargets[cli.pos].index} :
     \E o \in {retryOverride(previewProfile(idx))} :
     \E att \in {singleProfile(readRows[idx + 1], o)} :
        /\ cur' = att
        /\ sent' = Append(sent, Call("UpdateCard", idx, 2, att.profile))
        /\ updLog' = LogTo(updLog, singleRequestLines(idx, o, att.profile))
  /\ pc' = "retryAwait"
  /\ UNCHANGED <<inputs, overlap, past, applied, i, rows, result, regLog, reply, single, cli>>

\* The retry's answer: counted as updated, or kept with the retry's message
CliRetryReceive ==
  /\ pc = "retryAwait" /\ op = "cli"
  /\ \E raw \in Responses :
       LET e == cli.retryTargets[cli.pos]
           res == singleResult(cur, raw)
           msg == retryMessage(res)
       IN /\ sent' = Answer(raw)
          /\ single' = res
          /\ updLog' = LogTo(updLog, singleResponseLines(e.index, raw))
          /\ cli' = IF res.rowStatus.ok
                    THEN [cli EXCEPT !.retryUpdated = @ + 1, !.pos = @ + 1]
                    ELSE [cli EXCEPT !.retryErrors = Append(@, [index |-> e.index, cardNo |-> e.cardNo,
                                                                message |-> msg]),
                                     !.pos = @ + 1]
  /\ cur' = NoCur
  /\ pc' = "retry"
  /\ UNCHANGED <<inputs, overlap, past, applied, i, rows, result, regLog, reply>>

\* Every target has been retried: exit 0 when no retry failed, else 2
CliFinish ==
  /\ pc = "retry" /\ op = "cli" /\ cli.pos > Len(cli.retryTargets)
  /\ cli' = [cli EXCEPT !.exitCode = IF Len(cli.retryErrors) = 0 THEN 0 ELSE 2]
  /\ pc' = "exited"
  /\ UNCHANGED <<inputs, overlap, past, applied, i, rows, cur, result, sent, regLog, updLog, reply, single>>

(***************************************************************************)
(* The previews: previewJobToVault, previewCsvPathToVault and              *)
(* previewUpdateCsvPathToVault return a summary without awaiting anything. *)
(***************************************************************************)
\* The staff-number columns the create previews show
PreviewStaffNoColumns ==
  <<"Staff No [Max 15]", "Staff No. [Max 10]", "Emp. No", "Employee ID", "ID", "NIK">>

\* One entry of result.details in previewJobToVault and previewCsvPathToVault
previewCreateDetail(row) ==
  LET att == tryAttachPhoto(mapRowToProfile(row))
  IN [cardNo |-> att.profile.CardNo, name |-> att.profile.Name,
      department |-> att.profile.Department,
      staffNo |-> Or2(s(Cols(row, PreviewStaffNoColumns)), att.profile.CardNo),
      hasPhoto |-> att.hasPhoto, sourceRow |-> row, profile |-> att.profile]

\* One entry of details in previewUpdateCsvPathToVault
previewUpdateDetail(row) ==
  LET profile == mapRowToUpdateProfile(row)
  IN [cardNo |-> profile.CardNo, name |-> profile.Name,
      hasPhoto |-> photoExists(profile.CardNo, profile.StaffNo),
      department |-> profile.Department, staffNo |-> profile.StaffNo,
      sourceRow |-> row, profile |-> profile]

\* The counts and details a preview returns for its rows
previewSummary(details) ==
  [EmptyResult EXCEPT
     !.attempted = Len(details),
     !.withPhoto = Cardinality({k \in 1..Len(details) : details[k].hasPhoto}),
     !.withoutPhoto = Cardinality({k \in 1..Len(details) : ~details[k].hasPhoto}),
     !.details = details]

\* previewJobToVault / previewCsvPathToVault, from the call to the return
PreviewCreate ==
  /\ pc = "start" /\ op \in PreviewCreateOps
  /\ result' = IF ~dirExists
               THEN [EmptyResult EXCEPT !.errors = <<[code |-> "OUTPUT_NOT_FOUND"]>>]
               ELSE IF op = "previewCsv" /\ ~fileExists
               THEN [EmptyResult EXCEPT !.errors = <<[code |-> "CSV_NOT_FOUND"]>>]
               ELSE IF Len(readRows) = 0
               THEN [EmptyResult EXCEPT !.errors = <<[code |-> "NO_ROWS"]>>]
               ELSE previewSummary([k \in 1..Len(readRows) |-> previewCreateDetail(readRows[k])])
  /\ rows' = IF dirExists /\ (op = "previewJob" \/ fileExists) THEN readRows ELSE rows
  /\ pc' = "returned"
  /\ UNCHANGED <<inputs, overlap, past, applied, i, cur, sent, regLog, updLog, reply, single, cli>>

\* previewUpdateCsvPathToVault, from the call to the return
PreviewUpdate ==
  /\ pc = "start" /\ op = "previewUpdate"
  /\ result' = previewSummary([k \in 1..Len(readRows) |-> previewUpdateDetail(readRows[k])])
  /\ rows' = readRows
  /\ pc' = "returned"
  /\ UNCHANGED <<inputs, overlap, past, applied, i, cur, sent, regLog, updLog, reply, single, cli>>

Next ==
  \/ PreviewCreate \/ PreviewUpdate
  \/ StartCreate \/ ProcessCreateRow \/ ReceiveCreate \/ CompleteCreate
  \/ StartUpdate \/ ProcessUpdateRow \/ ReceiveUpdate \/ CompleteUpdate
  \/ ReplyRegister \/ ReplyUpdate
  \/ SingleRequest \/ SingleReceive \/ ReplySingle \/ SingleAgain
  \/ ProfileRequest \/ ProfileReceive
  \/ CliMissingFile \/ CliAfterFirstPass \/ CliRetrySend \/ CliRetryReceive \/ CliFinish

Spec == Init /\ [][Next]_vars

\* A batch run or the script has a step to take: the guards of StartCreate,
\* StartUpdate and CliMissingFile, of the loop and completion steps, of the
\* receiving steps, of the replies and of the script's retry steps
RunCanStep ==
  /\ op \in BatchOps \cup {"cli"}
  /\ \/ pc = "start"
     \/ pc = "loop"
     \/ pc = "await"
     \/ pc = "returned"
     \/ pc = "retry" /\ op = "cli"
     \/ pc = "retryAwait" /\ op = "cli"

\* The run takes its step: it moves to another position or to another row.
\* Every step of a batch run and of the script does one or the other.
Advance ==
  /\ RunCanStep
  /\ pc' \in {"start", "loop", "await", "returned", "replied", "retry", "retryAwait", "exited"}
  /\ i' \in 0..(MaxRows + 1)

\* The same runs when a run that has a step to take takes it in the end: the
\* process goes on with its own code, and every call to the endpoint comes
\* back with a response or an exception.  The condition is weak fairness of
\* the run's steps, stated through their guards.
FairSpec == Spec /\ WF_<<pc, i>>(Advance)


(***************************************************************************)
(* The mappers and their helpers applied on their own: one function, one   *)
(* argument, and for the mappers the steps a batch takes after mapping.    *)
(***************************************************************************)
\* Longest text handed to clip, and largest maximum
MaxClipLen == 4
MaxClipMax == 3

\* Cells of a sheet, column by column; the first choice of each is a sheet
\* without the column
CardCells == { ("Sheet" :> <<"1">>),
               ("Card No" :> <<" ">>),
               ("Card No [Max 10]" :> <<>>) @@ ("CardNo" :> <<>>),
               ("Card No" :> <<" ","1","2","3","4","5","6","7","8","9","0","1","2","3"," ">>) }
StaffCells == { ("Sheet" :> <<"1">>),
                ("Employee ID" :> <<"E","7","7">>),
                ("Staff No [Max 15]" :> Rep("7", 20)) @@ ("STAFF ID" :> Rep("7", 20)) }
AccessCells == { ("Sheet" :> <<"1">>),
                 ("Access Level" :> <<" ","1","1"," ">>),
                 ("Access Level" :> <<" ">>) @@ ("Face Access Level" :> <<" ">>) @@ ("Lift Access Level" :> <<>>),
                 ("Access Level" :> <<"0","7">>) @@ ("Face Access Level" :> <<"0","5">>) @@ ("Lift Access Level" :> <<"0","3">>) }
MessCells == { ("Sheet" :> <<"1">>),
               ("MessHall" :> <<"L","a","b","o","t","a">>),
               ("MessHall" :> <<"M","a","k","a","r","t","i"," ","1","0">>),
               ("MessHall" :> <<"N","o"," ","A","c","c","e","s","s","!","!">>),
               ("MessHall" :> <<>>) @@ ("Vehicle No" :> <<"B","1">>) }

MapperRows ==
  {c @@ f @@ a @@ m : c \in CardCells, f \in StaffCells, a \in AccessCells, m \in MessCells}
  \cup {RowNoCard, RowLong,
        RowLong @@ ("Email" :> Rep("e", 70)) @@ ("Access Level" :> Rep("9", 5))}

\* Texts of at most MaxClipLen characters with white space inside and around
ClipTexts == UNION {[1..n -> {"a", " "}] : n \in 0..MaxClipLen}

DateTexts ==
  { <<"3","5","5","2","4">>, <<"2","5","5","6","9">>, <<"3","6","5","8","6">>, <<"0">>,
    <<"4","4","9","2","7">>, <<"3","5","5","2","4",".","7","5">>, <<" ","3","5","5","2","4"," ">>,
    <<"2","5","5","6","8">>, <<"6","0">>, Rep("9", 17),
    <<"1","9","9","0","-","0","1","-","0","2">>, <<"1","7"," ","A","p","r"," ","1","9","9","7">>,
    <<"1","2","a">>, <<"1",".","5",".","2">>, <<".","5">>, <<>>, <<" ">>, Undef }

\* Profiles handed to the envelope builders as they are: one with nothing but
\* its card number, one with markup characters, a photo and its flags set
EnvelopeProfiles ==
  { [CardNo |-> <<"1","2","3">>],
    [CardNo |-> <<"1","<","2">>, Name |-> <<"A","&","B">>, Gentle |-> <<"F">>,
     Photo |-> <<"/","9","j","/">>, BypassAP |-> S_true, ActiveStatus |-> S_false,
     NonExpired |-> <<>>, Download |-> S_false] }

MapperArgs ==
  {[kind |-> "row", row |-> r] : r \in MapperRows}
  \cup {[kind |-> "profile", profile |-> p] : p \in EnvelopeProfiles}
  \cup {[kind |-> "body", st |-> st, text |-> b] : st \in {200, 500}, b \in ResponseBodies}
  \cup {[kind |-> "clip", v |-> v, m |-> m] : v \in ClipTexts \cup {Undef}, m \in 0..MaxClipMax}
  \cup {[kind |-> "date", v |-> v] : v \in DateTexts}

MapperInit ==
  /\ op = "apply"
  /\ dirExists = FALSE /\ fileExists = FALSE /\ fileRows = <<>> /\ overrides = <<>>
  /\ pc = "start" /\ i = 0 /\ rows = <<>> /\ cur = NoCur /\ result = EmptyResult
  /\ sent = <<>> /\ regLog = <<>> /\ updLog = <<>> /\ reply = NoReply
  /\ reqIndex = 0 /\ reqOverride = <<>> /\ single = NoSingle /\ cli = NoCli /\ past = <<>>
  /\ tasks = <<>> /\ pool = "closed"
  /\ applied \in {[fn |-> "none", arg |-> a, out |-> <<>>] : a \in MapperArgs}

\* Everything but `applied`
notApplied == <<inputs, pc, i, rows, cur, result, sent, regLog, updLog, reply, single, cli, past, overlap>>

ApplyCreateMapper ==
  /\ applied.fn = "none" /\ applied.arg.kind = "row"
  /\ applied' = [applied EXCEPT !.fn = "mapRowToProfile", !.out = mapRowToProfile(applied.arg.row)]
  /\ UNCHANGED notApplied

ApplyUpdateMapper ==
  /\ applied.fn = "none" /\ applied.arg.kind = "row"
  /\ applied' = [applied EXCEPT !.fn = "mapRowToUpdateProfile",
                                 !.out = mapRowToUpdateProfile(applied.arg.row)]
  /\ UNCHANGED notApplied

\* What a create batch without overrides does with a mapped profile that
\* has a card number: attach the photo, build the envelope
ApplyCreateSteps ==
  /\ applied.fn = "mapRowToProfile" /\ Truthy(applied.out.CardNo)
  /\ \E att \in {tryAttachPhoto(applied.out)} :
       applied' = [applied EXCEPT !.fn = "addCard",
                     !.out = [profile |-> att.profile, CardNo |-> addCardText(att.profile, "CardNo"),
                              envelope |-> buildAddCardEnvelope(att.profile)]]
  /\ UNCHANGED notApplied

\* What an update batch without overrides does with a mapped profile
ApplyUpdateSteps ==
  /\ applied.fn = "mapRowToUpdateProfile"
  /\ \E att \in {tryAttachPhoto(applied.out)} :
       applied' = [applied EXCEPT !.fn = "updateCard",
                     !.out = [profile |-> att.profile, CardNo |-> updateCardText(att.profile, "CardNo"),
                              envelope |-> buildUpdateCardEnvelope(att.profile)]]
  /\ UNCHANGED notApplied

ApplyBuildAddCardEnvelope ==
  /\ applied.fn = "none" /\ applied.arg.kind = "profile"
  /\ applied' = [applied EXCEPT !.fn = "buildAddCardEnvelope",
                     !.out = [profile |-> applied.arg.profile,
                              envelope |-> buildAddCardEnvelope(applied.arg.profile)]]
  /\ UNCHANGED notApplied

ApplyBuildUpdateCardEnvelope ==
  /\ applied.fn = "none" /\ applied.arg.kind = "profile"
  /\ applied' = [applied EXCEPT !.fn = "buildUpdateCardEnvelope",
                     !.out = [profile |-> applied.arg.profile,
                              envelope |-> buildUpdateCardEnvelope(applied.arg.profile)]]
  /\ UNCHANGED notApplied

\* The answer of a create call parsed and classified as the create batches do
ApplyPostAddCard ==
  /\ applied.fn = "none" /\ applied.arg.kind = "body"
  /\ \E resp \in {parseAddCard(applied.arg.st, applied.arg.text)} :
       applied' = [applied EXCEPT !.fn = "postAddCard",
                                  !.out = [resp |-> resp, ok |-> bizSuccess(resp)]]
  /\ UNCHANGED notApplied

\* The answer of an update call parsed and classified as the update operations do
ApplyPostUpdateCard ==
  /\ applied.fn = "none" /\ applied.arg.kind = "body"
  /\ \E resp \in {parseUpdateCard(applied.arg.st, applied.arg.text)} :
       applied' = [applied EXCEPT !.fn = "postUpdateCard",
                                  !.out = [resp |-> resp, ok |-> updateOk(resp)]]
  /\ UNCHANGED notApplied

ApplyClip ==
  /\ applied.fn = "none" /\ applied.arg.kind = "clip"
  /\ applied' = [applied EXCEPT !.fn = "clip", !.out = clip(applied.arg.v, applied.arg.m)]
  /\ UNCHANGED notApplied

\* clip applied to its own result
ApplyClipAgain ==
  /\ applied.fn = "clip"
  /\ applied' = [applied EXCEPT !.fn = "clip.clip",
                                 !.out = [once |-> applied.out, twice |-> clip(applied.out, applied.arg.m)]]
  /\ UNCHANGED notApplied

ApplyNormalizeExcelDate ==
  /\ applied.fn = "none" /\ applied.arg.kind = "date"
  /\ applied' = [applied EXCEPT !.fn = "normalizeExcelDate", !.out = normalizeExcelDate(applied.arg.v)]
  /\ UNCHANGED notApplied

ApplyCliNormalizeExcelDate ==
  /\ applied.fn = "none" /\ applied.arg.kind = "date"
  /\ applied' = [applied EXCEPT !.fn = "cliNormalizeExcelDate",
                                 !.out = cliNormalizeExcelDate(applied.arg.v)]
  /\ UNCHANGED notApplied

MapperNext ==
  \/ ApplyCreateMapper \/ ApplyUpdateMapper \/ ApplyCreateSteps \/ ApplyUpdateSteps
  \/ ApplyBuildAddCardEnvelope \/ ApplyBuildUpdateCardEnvelope
  \/ ApplyPostAddCard \/ ApplyPostUpdateCard
  \/ ApplyClip \/ ApplyClipAgain
  \/ ApplyNormalizeExcelDate \/ ApplyCliNormalizeExcelDate

MapperSpec == MapperInit /\ [][MapperNext]_vars


(***************************************************************************)
(* Two registerJobToVault runs of one server process on the same output    *)
(* directory.  A run is suspended only while it awaits postAddCard; what   *)
(* it does between two awaits, appends to the log included, is one step.   *)
(***************************************************************************)
\* The most rows either of the two runs has
MaxRunRows == 2

TaskIds == {1, 2}

\* An append that leaves its line without the line end
appendUnterminated(log, obj) == Append(log, obj @@ [end |-> ""])

\* appendJsonLog: one appendFileSync of the line text and its line end
appendJsonLog(log, obj) == Append(log, obj @@ [end |-> "\n"])

\* The appends a run makes one after the other before it is suspended again
RECURSIVE appendJsonLogs(_, _)
appendJsonLogs(log, objs) ==
  IF objs = <<>> THEN log ELSE appendJsonLogs(appendJsonLog(log, Head(objs)), Tail(objs))

\* The lines run r emits next, numbered in the order it emits them
RunLines(r, events) ==
  [k \in 1..Len(events) |->
     [run |-> r, seq |-> tasks[r].emitted + k, event |-> events[k], index |-> tasks[r].i]]

\* Run r appends the events and goes on to position p with row index j
RunStep(r, events, p, j) ==
  /\ regLog' = appendJsonLogs(regLog, RunLines(r, events))
  /\ tasks' = [tasks EXCEPT ![r] = [@ EXCEPT !.pc = p, !.i = j, !.emitted = @ + Len(events)]]
  /\ UNCHANGED <<inputs, pc, i, rows, cur, result, sent, updLog, reply, single, cli, past, applied, pool>>

LogInit ==
  /\ op = "registerTwice"
  /\ dirExists = TRUE /\ fileExists = TRUE /\ fileRows = <<>> /\ overrides = <<>>
  /\ pc = "start" /\ i = 0 /\ rows = <<>> /\ cur = NoCur /\ result = EmptyResult
  /\ sent = <<>> /\ regLog = <<>> /\ updLog = <<>> /\ reply = NoReply
  /\ reqIndex = 0 /\ reqOverride = <<>> /\ single = NoSingle /\ cli = NoCli /\ past = <<>>
  /\ applied = NoApplied /\ pool = "closed"
  /\ tasks \in [TaskIds -> {[pc |-> "start", n |-> n, i |-> 0, emitted |-> 0] : n \in 0..MaxRunRows}]

\* Up to the batch loop
RunStart(r) ==
  /\ tasks[r].pc = "start"
  /\ IF tasks[r].n = 0
     THEN RunStep(r, <<"start", "no_rows">>, "returned", 0)
     ELSE RunStep(r, <<"start", "override_map_ready">>, "loop", 0)

\* A row without a card number: logged and skipped without a call
RunSkipRow(r) ==
  /\ tasks[r].pc = "loop" /\ tasks[r].i < tasks[r].n
  /\ RunStep(r, <<"row_mapped", "card_no_missing">>, "loop", tasks[r].i + 1)

\* A row with a card number, up to the await of postAddCard
RunSendRow(r) ==
  /\ tasks[r].pc = "loop" /\ tasks[r].i < tasks[r].n
  /\ RunStep(r, <<"row_mapped", "photo_candidates", "photo_attach_result", "soap_request">>,
             "await", tasks[r].i)

\* postAddCard returns or throws
RunReceive(r) ==
  /\ tasks[r].pc = "await"
  /\ \E event \in {"soap_response", "error"} :
       RunStep(r, <<event>>, "loop", tasks[r].i + 1)

RunComplete(r) ==
  /\ tasks[r].pc = "loop" /\ tasks[r].i >= tasks[r].n
  /\ RunStep(r, <<"complete">>, "returned", tasks[r].i)

LogNext ==
  \E r \in TaskIds :
    RunStart(r) \/ RunSkipRow(r) \/ RunSendRow(r) \/ RunReceive(r) \/ RunComplete(r)

LogSpec == LogInit /\ [][LogNext]_vars

(***************************************************************************)
(* Two POST /api/vault/update-card-db requests of one server process.      *)
(* sql.connect, new sql.Request() and sql.close() all act on the one       *)
(* global pool of the mssql module.  A request is suspended at each await: *)
(* sql.connect, the two queries, updateProfileToVault and sql.close.       *)
(***************************************************************************)
\* The card number of a request: blank, of no row of carddb, or of a row
DbCards == {"blank", "absent", "present"}

\* The pool object a request's sql.Request is bound to: none yet, open or closed
DbTask(card, raw) ==
  [pc |-> "start", card |-> card, raw |-> raw, conn |-> "none", status |-> 0, success |-> FALSE]

DbInit ==
  /\ op = "updateCardDbTwice"
  /\ dirExists = TRUE /\ fileExists = TRUE /\ fileRows = <<>> /\ overrides = <<>>
  /\ pc = "start" /\ i = 0 /\ rows = <<>> /\ cur = NoCur /\ result = EmptyResult
  /\ sent = <<>> /\ regLog = <<>> /\ updLog = <<>> /\ reply = NoReply
  /\ reqIndex = 0 /\ reqOverride = <<>> /\ single = NoSingle /\ cli = NoCli /\ past = <<>>
  /\ applied = NoApplied /\ pool = "closed"
  /\ tasks \in [TaskIds -> {DbTask(card, raw) : card \in DbCards, raw \in Responses}]

\* Request r goes on to position p
DbStep(r, p) ==
  /\ tasks' = [tasks EXCEPT ![r] = [@ EXCEPT !.pc = p]]
  /\ UNCHANGED <<inputs, pc, i, rows, cur, result, sent, regLog, updLog, reply, single, cli, past,
                 applied, pool>>

\* Request r replies with the status and the success flag; its finally block is next
DbReply(r, st, ok) ==
  /\ tasks' = [tasks EXCEPT ![r] = [@ EXCEPT !.pc = "finally", !.status = st, !.success = ok]]
  /\ UNCHANGED <<inputs, pc, i, rows, cur, result, sent, regLog, updLog, reply, single, cli, past,
                 applied, pool>>

\* Up to await sql.connect(config): a blank cardNo is answered 400 before it
DbReceive(r) ==
  /\ tasks[r].pc = "start"
  /\ IF tasks[r].card = "blank" THEN DbReply(r, 400, FALSE) ELSE DbStep(r, "connect")

\* sql.connect(config) opens the global pool or hands back the open one;
\* new sql.Request() is bound to it
DbConnect(r) ==
  /\ tasks[r].pc = "connect"
  /\ pool' = "open"
  /\ tasks' = [tasks EXCEPT ![r] = [@ EXCEPT !.pc = "query1", !.conn = "open"]]
  /\ UNCHANGED <<inputs, pc, i, rows, cur, result, sent, regLog, updLog, reply, single, cli, past,
                 applied>>

\* request.query(... WHERE cardno = @cardNo): rejected on a closed pool, which
\* the catch block answers with 500
DbQuery1(r) ==
  /\ tasks[r].pc = "query1"
  /\ IF tasks[r].conn # "open" THEN DbReply(r, 500, FALSE)
     ELSE IF tasks[r].card = "present" THEN DbStep(r, "vault")
     ELSE DbStep(r, "query2")

\* request.query(... WHERE CardNo = @cardNo), made when the first found no row
DbQuery2(r) ==
  /\ tasks[r].pc = "query2"
  /\ IF tasks[r].conn # "open" THEN DbReply(r, 500, FALSE)
     ELSE IF tasks[r].card = "present" THEN DbStep(r, "vault")
     ELSE DbReply(r, 404, FALSE)

\* updateProfileToVault returns or postUpdateCard throws
DbVault(r) ==
  /\ tasks[r].pc = "vault"
  /\ IF tasks[r].raw.type = "throw" THEN DbReply(r, 500, FALSE)
     ELSE DbReply(r, 200, updateOk(postUpdateCard(tasks[r].raw)))

\* finally { await sql.close() }: the global pool is closed, and with it the
\* pool object every request is bound to
DbFinally(r) ==
  /\ tasks[r].pc = "finally"
  /\ pool' = "closed"
  /\ tasks' = [q \in TaskIds |->
                 [tasks[q] EXCEPT !.pc = IF q = r THEN "done" ELSE @,
                                  !.conn = IF @ = "open" THEN "closed" ELSE @]]
  /\ UNCHANGED <<inputs, pc, i, rows, cur, result, sent, regLog, updLog, reply, single, cli, past,
                 applied>>

DbNext ==
  \E r \in TaskIds :
    DbReceive(r) \/ DbConnect(r) \/ DbQuery1(r) \/ DbQuery2(r) \/ DbVault(r) \/ DbFinally(r)

DbSpec == DbInit /\ [][DbNext]_vars

(***************************************************************************)
(* The properties checked.                                                 *)
(***************************************************************************)
\* The calls that have been answered
AnsweredCalls == {c \in 1..Len(sent) : sent[c].answered}

\* The stated rule of a create's success: HTTP status in [200,300) and vendor code exactly 0 or 1
StatedCreateSuccess(raw) ==
  /\ raw.type = "http"
  /\ raw.httpStatus >= 200 /\ raw.httpStatus < 300
  /\ raw.ErrCode \in {<<"0">>, <<"1">>}

\* The stated rule of an update's success: HTTP status in [200,300) and vendor code absent, empty or exactly 0
StatedUpdateSuccess(raw) ==
  /\ raw.type = "http"
  /\ raw.httpStatus >= 200 /\ raw.httpStatus < 300
  /\ (raw.ErrCode = Undef \/ Trim(raw.ErrCode) \in {<<>>, <<"0">>})

\* The step in which the call in flight is answered, and the answer it gets
Answers == Len(sent) > 0 /\ Len(sent') = Len(sent) /\ ~sent[Len(sent)].answered /\ sent'[Len(sent)].answered
TheAnswer == sent'[Len(sent)].resp

\* HTTP 200 with vendor code 1
Is200Code1(raw) == raw.type = "http" /\ raw.httpStatus = 200 /\ raw.ErrCode = <<"1">>

\* The CardNo of row k of a batch once mapped and overridden
CardNoAfterOverride(k) ==
  IF op \in CreateOps
  THEN LET ov == overrideMapGet(overrides, k)
           p == mapRowToProfile(rows[k + 1])
       IN (IF ov.found THEN applyCreateOverride(p, ov.item) ELSE p).CardNo
  ELSE LET ov == overridesFind(overrides, k)
           p == mapRowToUpdateProfile(rows[k + 1])
       IN (IF ov.found THEN applyUpdateOverride(p, ov.item) ELSE p).CardNo

\* A message that contains "truncated", whatever the case of its letters
MentionsTruncated(msg) == msg # Undef /\ Includes(ToLower(msg), S_truncated)

\* C1: in the create batches the rows counted as succeeded are exactly the
\* answered calls whose HTTP status is in [200,300) and whose vendor code is
\* exactly 0 or 1; an absent, empty or other code is never counted
C1_CreateSuccessIffCodeZeroOrOne ==
  op \in CreateOps =>
    result.registered = Cardinality({c \in AnsweredCalls : StatedCreateSuccess(sent[c].resp)})

\* C2: in every update operation (batch, single row, single profile) an
\* answered call counts as succeeded exactly when its HTTP status is in
\* [200,300) and its vendor code is absent, empty or 0; HTTP 200 with code 1
\* is a VAULT_ERROR for an update and a success for a create
C2_UpdateSuccessIffCodeEmptyOrZero ==
  [][Answers =>
       LET raw == TheAnswer
           good == StatedUpdateSuccess(raw)
       IN /\ (pc = "await" /\ op \in UpdateBatchOps) =>
               /\ result'.registered = result.registered + (IF good THEN 1 ELSE 0)
               /\ Len(result'.errors) = Len(result.errors) + (IF good THEN 0 ELSE 1)
               /\ Is200Code1(raw) => result'.errors[Len(result'.errors)].code = "VAULT_ERROR"
          /\ (pc \in {"singleAwait", "retryAwait"}) =>
               /\ single'.registered = (IF good THEN 1 ELSE 0)
               /\ single'.rowStatus.ok = good
               /\ Is200Code1(raw) => single'.errors[1].code = "VAULT_ERROR"
          /\ (pc = "profileAwait") =>
               /\ reply'.success = good
               /\ raw.type = "http" => single'.ok = good
          /\ (pc = "await" /\ op \in CreateOps /\ Is200Code1(raw)) =>
               /\ result'.registered = result.registered + 1
               /\ result'.errors = result.errors
  ]_vars

\* An update batch has counted an answer with an empty code as a success and
\* has recorded HTTP 200 with code 1 as a VAULT_ERROR
C2_Witness ==
  /\ op = "updateCsv" /\ pc = "returned"
  /\ \E c \in AnsweredCalls : sent[c].resp.type = "http" /\ sent[c].resp.ErrCode = <<>>
  /\ \E c \in AnsweredCalls : Is200Code1(sent[c].resp)
  /\ result.registered = 1
  /\ Len(result.errors) = 1 /\ result.errors[1].code = "VAULT_ERROR"

\* C3: in the create and the update operations an answer with a non-2xx
\* HTTP status is recorded as HTTP_ERROR whatever its vendor code, and a 2xx
\* answer with a non-success vendor code as VAULT_ERROR with the vendor's
\* code and message
C3_HttpErrorThenVaultError ==
  [][(Answers /\ TheAnswer.type = "http" /\ pc \in {"await", "singleAwait", "retryAwait"}) =>
       LET raw == TheAnswer
           twoXX == raw.httpStatus >= 200 /\ raw.httpStatus < 300
           good == IF op \in CreateOps THEN StatedCreateSuccess(raw) ELSE StatedUpdateSuccess(raw)
           errs == IF pc = "await" THEN result'.errors ELSE single'.errors
           before == IF pc = "await" THEN Len(result.errors) ELSE 0
           last == errs[Len(errs)]
       IN /\ ~twoXX => (Len(errs) = before + 1 /\ last.code = "HTTP_ERROR")
          /\ (twoXX /\ ~good) =>
               /\ Len(errs) = before + 1
               /\ last.code = "VAULT_ERROR"
               /\ last.errCode = raw.ErrCode
               /\ Truthy(raw.ErrMessage) => last.message = raw.ErrMessage
  ]_vars

\* C4: in every batch, create or update, a row whose CardNo is blank after
\* mapping and override is never sent to the endpoint and is recorded as
\* exactly one CARD_NO_MISSING error
C4_BlankCardNoIsNeverSent ==
  (op \in BatchOps \cup {"cli"} /\ pc = "returned" /\ i = Len(rows)) =>
    \A k \in 0..(Len(rows) - 1) :
      ~Truthy(CardNoAfterOverride(k)) =>
        /\ \A c \in 1..Len(sent) : sent[c].index # k
        /\ Cardinality({e \in 1..Len(result.errors) :
                          result.errors[e].code = "CARD_NO_MISSING" /\ result.errors[e].index = k}) = 1

\* C5: a batch processes every row whatever the earlier rows' outcomes, and
\* reports attempted as the number of rows; three rows of which row 0 has no
\* CardNo and rows 1 and 2 are accepted give attempted 3, succeeded 2 and the
\* single error CARD_NO_MISSING of row 0
C5_BatchNeverStopsEarly ==
  (op \in BatchOps \cup {"cli"} /\ pc = "returned" /\ Len(rows) > 0) =>
    /\ i = Len(rows)
    /\ result.attempted = Len(rows)
    /\ result.registered + Len(result.errors) = Len(rows)
    /\ ( /\ Len(rows) = 3
         /\ ~Truthy(CardNoAfterOverride(0))
         /\ Truthy(CardNoAfterOverride(1)) /\ Truthy(CardNoAfterOverride(2))
         /\ \A c \in 1..Len(sent) :
              sent[c].index \in {1, 2} => sent[c].resp = Http(200, <<"0">>, Undef) )
       => /\ result.attempted = 3
          /\ result.registered = 2
          /\ Len(result.errors) = 1
          /\ result.errors[1].code = "CARD_NO_MISSING"
          /\ result.errors[1].index = 0

\* C6: in every batch operation a missing output directory, a missing input
\* file or an input of zero rows ends the run with no call made, attempted 0
\* and exactly one error: OUTPUT_NOT_FOUND, CSV_NOT_FOUND or NO_ROWS
C6_MissingInputGivesOneError ==
  (op \in BatchOps /\ pc = "returned" /\ (~dirExists \/ ~fileExists \/ Len(fileRows) = 0)) =>
    /\ Len(sent) = 0
    /\ result.attempted = 0
    /\ Len(result.errors) = 1
    /\ result.errors[1].code \in
         (IF ~dirExists THEN {"OUTPUT_NOT_FOUND"}
          ELSE IF ~fileExists
               THEN (IF op = "register" THEN {"CSV_NOT_FOUND", "NO_ROWS"} ELSE {"CSV_NOT_FOUND"})
               ELSE {"NO_ROWS"})

\* The retry of row idx has succeeded
RetriedOk(idx) ==
  \E c \in AnsweredCalls : sent[c].pass = 2 /\ sent[c].index = idx /\ StatedUpdateSuccess(sent[c].resp)

\* The first-pass errors of the script that no successful retry has cleared
FinalErrors == {e \in 1..Len(result.errors) : ~RetriedOk(result.errors[e].index)}

\* C7: a finished run is reported as successful (the success flag of the
\* register and update replies, exit status 0 of the script) exactly when
\* its final error list is empty
C7_SuccessIffNoErrorLeft ==
  /\ (op \in BatchOps /\ reply.done) => (reply.success <=> Len(result.errors) = 0)
  /\ (op = "cli" /\ pc = "exited" /\ fileExists) => (cli.exitCode = 0 <=> FinalErrors = {})

\* C8: in the script each row whose first-pass error mentions "truncated" is
\* sent again exactly once, after the first pass has an outcome for every
\* row; no other row is sent again, and no row is sent more than twice
C8_TruncatedRowsRetriedOnce ==
  op = "cli" =>
    LET retries == {c \in 1..Len(sent) : sent[c].pass = 2}
        firsts == {c \in 1..Len(sent) : sent[c].pass = 1}
    IN /\ \A c \in retries :
            /\ pc \in {"retry", "retryAwait", "exited"}
            /\ i = Len(rows) /\ Cardinality(firsts) = Len(rows)
            /\ \A f \in firsts : f < c /\ sent[f].answered
            /\ \E e \in 1..Len(result.errors) :
                  /\ result.errors[e].index = sent[c].index
                  /\ MentionsTruncated(result.errors[e].message)
            /\ \A d \in retries : sent[d].index = sent[c].index => d = c
       /\ \A k \in 0..(Len(rows) - 1) : Cardinality({c \in 1..Len(sent) : sent[c].index = k}) <= 2
       /\ (pc = "exited" /\ fileExists) =>
            \A e \in 1..Len(result.errors) :
               MentionsTruncated(result.errors[e].message) =>
                 \E c \in retries : sent[c].index = result.errors[e].index

\* The script has ended after a retry, with a failed row it did not retry
C8_Witness ==
  /\ op = "cli" /\ pc = "exited"
  /\ \E c \in 1..Len(sent) : sent[c].pass = 2
  /\ \E e \in 1..Len(result.errors) :
        /\ ~MentionsTruncated(result.errors[e].message)
        /\ Cardinality({c \in 1..Len(sent) : sent[c].index = result.errors[e].index}) = 1
  /\ \E c \in 1..Len(sent) : sent[c].pass = 1 /\ StatedUpdateSuccess(sent[c].resp)

\* The message of a retry's answer
RetryAnswerMessage(raw) ==
  IF raw.type = "throw" THEN raw.message
  ELSE IF raw.ErrMessage # Undef /\ Trim(raw.ErrMessage) # <<>> THEN Trim(raw.ErrMessage)
  ELSE S_UnknownError

\* C9: a retried row is in the final error list exactly when its retry
\* failed, and then with the message of the retry's answer; a row whose
\* retry succeeded is not in the list
C9_RetriedRowKeptIffRetryFailed ==
  op = "cli" =>
    \A c \in AnsweredCalls :
      sent[c].pass = 2 =>
        LET raw == sent[c].resp
            kept == {e \in 1..Len(cli.retryErrors) : cli.retryErrors[e].index = sent[c].index}
        IN IF StatedUpdateSuccess(raw) THEN kept = {}
           ELSE /\ Cardinality(kept) = 1
                /\ \A e \in kept : cli.retryErrors[e].message = RetryAnswerMessage(raw)

\* The script has ended with one retry that succeeded and one that failed
\* with a message other than the first pass's
C9_Witness ==
  /\ op = "cli" /\ pc = "exited"
  /\ cli.retryUpdated = 1
  /\ Len(cli.retryErrors) = 1
  /\ \E e \in 1..Len(result.errors) :
        /\ result.errors[e].index = cli.retryErrors[1].index
        /\ result.errors[e].message # cli.retryErrors[1].message

\* The maximum lengths stated for the retry
StatedRetryMax ==
  [Name |-> 50, Department |-> 50, Company |-> 50, Title |-> 50, Position |-> 50, Address1 |-> 50,
   Address2 |-> 50, Email |-> 50, VehicleNo |-> 50, MobileNo |-> 20, StaffNo |-> 15]

\* C10: the profile sent by a retry is derived again from the row of the
\* input, each of its fields of the retry table is no longer than the
\* table's maximum, and its Download flag is the first pass's
C10_RetriedProfileRederivedAndCut ==
  op = "cli" =>
    \A c \in 1..Len(sent) :
      sent[c].pass = 2 =>
        LET p == sent[c].profile
            orig == mapRowToUpdateProfile(fileRows[sent[c].index + 1])
            first == CHOOSE f \in 1..Len(sent) : sent[f].pass = 1 /\ sent[f].index = sent[c].index
        IN /\ \A f \in DOMAIN StatedRetryMax :
                Has(p, f) => /\ Len(p[f]) <= StatedRetryMax[f]
                             /\ Has(orig, f) /\ p[f] = Substring0(orig[f], StatedRetryMax[f])
           /\ \A f \in (DOMAIN orig) \ ((DOMAIN StatedRetryMax) \cup {"Photo"}) : p[f] = orig[f]
           /\ p.Download = sent[first].profile.Download

\* A retry has sent the row of over-long texts, its Name cut
C10_Witness ==
  /\ op = "cli"
  /\ \E c \in 1..Len(sent) :
        /\ sent[c].pass = 2
        /\ Len(fileRows[sent[c].index + 1]["Name"]) > 50
        /\ Len(sent[c].profile.Name) = UpdMaxName
        /\ sent[c].profile.Download = S_true

\* The overrides of the request that name row k and carry a card number
CardNoOverridesOf(k) ==
  {n \in 1..Len(overrides) : overrides[n].index = k /\ Has(overrides[n], "cardNo")}

\* The overrides of the request that name row k and carry a download flag
DownloadOverridesOf(k) ==
  {n \in 1..Len(overrides) : overrides[n].index = k /\ Has(overrides[n], "downloadCard")}

\* The profile the mapper of the running batch returns for row k
MappedRow(k) == IF op \in CreateOps THEN mapRowToProfile(rows[k + 1])
                ELSE mapRowToUpdateProfile(rows[k + 1])

\* The first-pass calls of a batch request
BatchCalls == {c \in 1..Len(sent) : op \in BatchOps /\ sent[c].pass = 1}

\* C11: in create and update batches a row named by an override that carries
\* a card number is submitted with that card number, trimmed and cut to 10
\* characters, and every row no such override names is submitted with the
\* CardNo mapped from its own row.
C11_OverrideChangesOnlyItsRow ==
  \A c \in BatchCalls :
    LET k == sent[c].index
        hits == CardNoOverridesOf(k)
    IN IF hits = {}
       THEN sent[c].profile.CardNo = MappedRow(k).CardNo
       ELSE \E n \in hits :
              sent[c].profile.CardNo = Substring0(Trim(overrides[n].cardNo), CardNoMax)

\* The Download element of the envelope built for a call
DownloadSent(c) ==
  IF sent[c].api = "AddCard" THEN addCardText(sent[c].profile, "Download")
  ELSE updateCardText(sent[c].profile, "Download")

\* C12: in create and update batches the Download element submitted for a
\* row is the flag of the override that names the row ("true" or "false"),
\* and the mapped default for a row no override with a flag names.
C12_OverrideDownloadReachesEnvelope ==
  \A c \in BatchCalls :
    LET k == sent[c].index
        hits == DownloadOverridesOf(k)
    IN IF hits = {}
       THEN DownloadSent(c) = MappedRow(k).Download
       ELSE \E n \in hits :
              DownloadSent(c) = (IF overrides[n].downloadCard THEN S_true ELSE S_false)

\* The first-pass calls of a batch run, the script's first pass included
FirstPassCalls == {c \in 1..Len(sent) : op \in BatchOps \cup {"cli"} /\ sent[c].pass = 1}

\* The errors of the summary that name their row
IndexedErrors == {e \in 1..Len(result.errors) : Has(result.errors[e], "index")}

\* C13: a batch run handles its rows one at a time and in input order: only
\* the latest call can be in flight, the calls are made and the errors are
\* recorded in ascending row index, and while the call of row i is in flight
\* every earlier row has its outcome (a success or an error) recorded.
C13_RowsOneAtATimeInOrder ==
  /\ \A c \in 1..Len(sent) : ~sent[c].answered => c = Len(sent)
  /\ \A c, d \in FirstPassCalls : c < d => sent[c].index < sent[d].index
  /\ \A e, f \in IndexedErrors : e < f => result.errors[e].index < result.errors[f].index
  /\ (op \in BatchOps \cup {"cli"} /\ pc = "await") =>
        /\ ~sent[Len(sent)].answered
        /\ sent[Len(sent)].index = i
        /\ result.registered + Len(result.errors) = i
  /\ (op \in BatchOps \cup {"cli"} /\ pc = "loop") =>
        /\ \A c \in 1..Len(sent) : sent[c].answered /\ sent[c].index < i
        /\ result.registered + Len(result.errors) = i

\* The call of the third row is in flight after a success and a failure
C13_Witness ==
  /\ op \in BatchOps /\ pc = "await" /\ i = 2
  /\ Len(sent) = 3 /\ ~sent[3].answered
  /\ result.registered = 1 /\ Len(result.errors) = 1

\* An index that names a row of the input file
ValidIndex(k) == k >= 0 /\ k < Len(readRows)

\* The single-row request at hand has been handled
SingleHandled == op \in SingleOps /\ pc \in {"returned", "replied"}

\* The endpoint calls the single-row requests made so far are entitled to:
\* one for each request with a valid index
CallsOfValidRequests ==
  Cardinality({n \in 1..Len(past) : ValidIndex(past[n])})
  + (IF ValidIndex(reqIndex) /\ pc \in {"singleAwait", "returned", "replied"} THEN 1 ELSE 0)

MapperApplied == applied.fn \in {"mapRowToProfile", "mapRowToUpdateProfile"}

\* The stated maximum length of each text field of a profile
StatedMax ==
  [CardNo |-> 10, Name |-> 40, Department |-> 30, Company |-> 30, Title |-> 25, Position |-> 25,
   Address1 |-> 50, Email |-> 50, MobileNo |-> 20, VehicleNo |-> 15, StaffNo |-> 15]

\* C15: whichever mapper is applied to a row, no text field of the profile
\* it returns is longer than its stated maximum.
C15_MappedFieldsWithinMaxima ==
  MapperApplied =>
    \A f \in DOMAIN StatedMax :
      (Has(applied.out, f) /\ applied.out[f] # Undef) => Len(applied.out[f]) <= StatedMax[f]

\* C16: clip is idempotent: applied to its own result with the same maximum
\* it returns that result, for every text, white space inside included.
C16_ClipIsIdempotent ==
  applied.fn = "clip.clip" => applied.out.twice = applied.out.once

\* Every column either mapper reads the card number from
AllCardNoColumns ==
  {"Card No #[Max 10]", "Card No [Max 10]", "Card No", "CardNo", "Card Number", "CARD NO"}

\* The row at hand has no card number in any of them
CardNoColumnsBlank ==
  /\ applied.arg.kind = "row"
  /\ \A name \in AllCardNoColumns :
       Col(applied.arg.row, name) = Undef \/ Trim(Col(applied.arg.row, name)) = <<>>

\* C17: for a row whose card-number columns are all blank both mappers
\* return a blank CardNo, whatever its staff-number columns hold, and the
\* steps a batch without overrides takes after mapping leave it blank: the
\* create batch submits nothing, the update batch submits a blank CardNo.
C17_CardNoNeverTakenFromStaffNo ==
  CardNoColumnsBlank =>
    /\ MapperApplied => applied.out.CardNo = <<>>
    /\ applied.fn # "addCard"
    /\ applied.fn = "updateCard" => (applied.out.profile.CardNo = <<>> /\ applied.out.CardNo = <<>>)

\* A row with a staff number and no card number went through the update
\* batch's steps: its photo was found under the staff number
C17_Witness ==
  /\ CardNoColumnsBlank /\ applied.fn = "updateCard"
  /\ applied.out.profile.StaffNo = <<"E","7","7">>
  /\ Truthy(applied.out.profile.Photo)
  /\ applied.out.CardNo = <<>>

\* The access-level fields of a profile
LevelFields == {"AccessLevel", "FaceAccessLevel", "LiftAccessLevel"}

\* The sheet of the row at hand has none of the access-level and mess-hall columns
NoLevelColumns ==
  /\ applied.arg.kind = "row"
  /\ DOMAIN applied.arg.row \cap
       {"Access Level [Max 3]", "Access Level", "AccessLevel", "ACCESS LEVEL",
        "Face Access Level [Max 3]", "Face Access Level", "FaceAccessLevel", "FACE ACCESS LEVEL",
        "Lift Access Level [Max 3]", "Lift Access Level", "LiftAccessLevel", "LIFT ACCESS LEVEL",
        "MessHall", "Mess Hall", "MESSHALL"} = {}

\* C18: whichever mapper is applied to a row, the profile's AccessLevel,
\* FaceAccessLevel and LiftAccessLevel are all non-blank, also for a row
\* without any access-level or mess-hall column, which gets the fallback.
C18_AccessLevelsNeverBlank ==
  MapperApplied =>
    /\ \A f \in LevelFields :
         Has(applied.out, f) /\ applied.out[f] # Undef /\ Trim(applied.out[f]) # <<>>
    /\ NoLevelColumns => \A f \in LevelFields : applied.out[f] = S_00

\* The update mapper gave the fallback to a row without those columns
C18_Witness ==
  /\ applied.fn = "mapRowToUpdateProfile" /\ NoLevelColumns
  /\ applied.out.AccessLevel = S_00 /\ applied.out.FaceAccessLevel = S_00
  /\ applied.out.LiftAccessLevel = S_00

\* The access level the row at hand supplies in a column of its own
SuppliedAccessLevel ==
  s(Cols(applied.arg.row, <<"Access Level [Max 3]", "ACCESS LEVEL", "Access Level", "AccessLevel">>))

\* C19: whichever mapper is applied, a row that supplies a non-blank access
\* level in a column of its own gets exactly that value as AccessLevel; the
\* mess-hall derivation and the fallback serve only rows that supply none.
C19_SuppliedAccessLevelWins ==
  (MapperApplied /\ SuppliedAccessLevel # <<>>) => applied.out.AccessLevel = SuppliedAccessLevel

\* The calendar, counted day by day from 1 Jan 1970
IsLeap(y) == (y % 4 = 0 /\ y % 100 # 0) \/ y % 400 = 0
DaysBeforeMonth(y, m) ==
  <<0, 31, 59, 90, 120, 151, 181, 212, 243, 273, 304, 334>>[m] + (IF IsLeap(y) /\ m > 2 THEN 1 ELSE 0)
DaysInMonth(y, m) ==
  IF m = 2 THEN (IF IsLeap(y) THEN 29 ELSE 28) ELSE IF m \in {4, 6, 9, 11} THEN 30 ELSE 31
DaysSince1970(y, m, d) ==
  (IF y >= 1970
   THEN 365 * (y - 1970) + Cardinality({yy \in 1970..(y - 1) : IsLeap(yy)})
   ELSE 0 - (365 * (1970 - y) + Cardinality({yy \in y..1969 : IsLeap(yy)})))
  + DaysBeforeMonth(y, m) + d - 1

MonthNames == << <<"J","a","n">>, <<"F","e","b">>, <<"M","a","r">>, <<"A","p","r">>,
                 <<"M","a","y">>, <<"J","u","n">>, <<"J","u","l">>, <<"A","u","g">>,
                 <<"S","e","p">>, <<"O","c","t">>, <<"N","o","v">>, <<"D","e","c">> >>

\* `D Mon YYYY` of the date lying n minus 25569 days after 1 Jan 1970
StatedDateText(n) ==
  LET date == CHOOSE ymd \in (1890..2030) \X (1..12) \X (1..31) :
                /\ ymd[3] <= DaysInMonth(ymd[1], ymd[2])
                /\ DaysSince1970(ymd[1], ymd[2], ymd[3]) = n - 25569
  IN NumToStr(date[3]) \o <<" ">> \o MonthNames[date[2]] \o <<" ">> \o NumToStr(date[1])

\* A date text was normalised, by the mapper's helper or by the script's
DateNormalized ==
  /\ applied.fn \in {"normalizeExcelDate", "cliNormalizeExcelDate"}
  /\ applied.arg.v # Undef /\ Trim(applied.arg.v) # <<>>

\* The text at hand is a day count that a Date can hold
IsDayCount(v) == IsDecimalText(Trim(v)) /\ Len(Trim(v)) <= 9

\* What date normalization does apart from the worked example: a day count n
\* becomes the date n minus 25569 days after 1 Jan 1970, any other text is
\* returned as it is, without the white space around it
DatesNormalizedAsStated ==
  DateNormalized =>
    IF IsDayCount(applied.arg.v)
    THEN applied.out = StatedDateText(WholePart(Trim(applied.arg.v)))
    ELSE applied.out = Trim(applied.arg.v)

\* C20: date normalization turns a day count n into the date n minus 25569
\* days after 1 Jan 1970, written `D Mon YYYY`, so that 35524 yields
\* "4 Apr 1997"; a text that is no day count, such as "1990-01-02", and a
\* count too large for a date, is returned unchanged.
C20_DayCountBecomesCalendarDate ==
  /\ DatesNormalizedAsStated
  /\ (DateNormalized /\ applied.arg.v = <<"3","5","5","2","4">>) =>
        applied.out = <<"4"," ","A","p","r"," ","1","9","9","7">>
  /\ (DateNormalized /\ applied.arg.v = <<"1","9","9","0","-","0","1","-","0","2">>) =>
        applied.out = applied.arg.v

\* C20 as first stated: the same, with 35524 yielding "17 Apr 1997".
C20_Serial35524Is17Apr1997 ==
  /\ DatesNormalizedAsStated
  /\ (DateNormalized /\ applied.arg.v = <<"3","5","5","2","4">>) =>
        applied.out = <<"1","7"," ","A","p","r"," ","1","9","9","7">>
  /\ (DateNormalized /\ applied.arg.v = <<"1","9","9","0","-","0","1","-","0","2">>) =>
        applied.out = applied.arg.v

\* The mapper's helper has normalised the day count 35524
C20_Witness ==
  /\ applied.fn = "normalizeExcelDate" /\ applied.arg.v = <<"3","5","5","2","4">>
  /\ applied.out = <<"4"," ","A","p","r"," ","1","9","9","7">>

\* The profiles a preview returned in its details
PreviewedProfiles == {result.details[k].profile : k \in 1..Len(result.details)}

\* C21: a preview changes nothing outside its return value: it makes no call
\* to the endpoint, appends nothing to either audit log, and loads no photo
\* file content (no returned profile carries photo data)
C21_PreviewHasNoEffect ==
  (op \in PreviewOps) =>
    /\ sent = <<>>
    /\ regLog = <<>> /\ updLog = <<>>
    /\ \A p \in PreviewedProfiles : ~Truthy(Get(p, "Photo"))

\* An envelope has been built from a profile: by a builder applied on its own
\* or by the steps a batch takes after mapping
EnvelopeBuilt ==
  applied.fn \in {"buildAddCardEnvelope", "buildUpdateCardEnvelope", "addCard", "updateCard"}

\* The tag order as the claim lists it
StatedTagOrder ==
  <<"CardNo", "Name", "CardPinNo", "CardType", "Department", "Company", "Gender",
    "AccessLevel", "FaceAccessLevel", "LiftAccessLevel", "BypassAP", "ActiveStatus",
    "NonExpired", "ExpiredDate", "VehicleNo", "FloorNo", "UnitNo", "ParkingNo", "StaffNo",
    "Title", "Position", "NRIC", "Passport", "Race", "DOB", "JoiningDate", "ResignDate",
    "Address1", "Address2", "PostalCode", "City", "State", "Email", "MobileNo", "Photo",
    "Download">>

\* The same order with the seventh element under its wire name
WireTagOrder == [k \in 1..Len(StatedTagOrder) |->
                   IF StatedTagOrder[k] = "Gender" THEN "Gentle" ELSE StatedTagOrder[k]]

\* The tags of the profile block of the envelope built, in document order
BlockTags == [k \in 1..Len(applied.out.envelope.CardProfile) |->
                applied.out.envelope.CardProfile[k].tag]

\* The profile field an element of the block is filled from
FieldOfTag(tag) == IF tag = "Gender" THEN "Gentle" ELSE tag

\* The text written for a field the profile lacks or leaves empty
TextWhenMissing(operation, tag) ==
  IF tag = "BypassAP" THEN S_false
  ELSE IF operation = "UpdateCard" /\ tag \in {"ActiveStatus", "NonExpired", "Download"} THEN S_true
  ELSE <<>>

\* Every element of the block carries its field's escaped value, and `missing`
\* tells what stands in an element whose field is missing
BlockTextsAre(missing(_, _)) ==
  \A k \in 1..Len(applied.out.envelope.CardProfile) :
    \E el \in {applied.out.envelope.CardProfile[k]} :
    \E v \in {Field(applied.out.profile, FieldOfTag(el.tag))} :
       el.text = IF Truthy(v) THEN escapeXml(v) ELSE missing(applied.out.envelope.operation, el.tag)

EmptyWhenMissing(operation, tag) == <<>>

\* The update envelope carries the CardNo once before the block, the create
\* envelope carries nothing there
CardNoBeforeBlock ==
  applied.out.envelope.before =
    IF applied.out.envelope.operation = "UpdateCard"
    THEN <<[tag |-> "CardNo", text |-> escapeXml(Field(applied.out.profile, "CardNo"))]>>
    ELSE <<>>

\* C22 as the program has it: for every profile, also one with every optional
\* field missing, the create and the update envelope contain each tag exactly
\* once inside the profile block in the fixed order, the seventh tag being
\* Gentle; a missing value leaves its tag in place, empty or, for BypassAP
\* (false) and the update's ActiveStatus, NonExpired and Download (true), with
\* its default; the update envelope carries the same CardNo once before the block
C22_EveryTagOnceInWireOrder ==
  EnvelopeBuilt =>
    /\ BlockTags = WireTagOrder
    /\ BlockTextsAre(TextWhenMissing)
    /\ CardNoBeforeBlock

\* C22 as stated: the block's tags are the listed ones, Gender among them, in
\* the listed order, and a missing value is rendered as an empty tag
C22_EveryTagOnceInStatedOrder ==
  EnvelopeBuilt =>
    /\ BlockTags = StatedTagOrder
    /\ BlockTextsAre(EmptyWhenMissing)
    /\ CardNoBeforeBlock

\* An update envelope was built from a profile that has its card number
\* only; its Title element is there and empty
C22_Witness ==
  /\ applied.fn = "buildUpdateCardEnvelope"
  /\ DOMAIN applied.out.profile = {"CardNo"}
  /\ \E k \in 1..Len(applied.out.envelope.CardProfile) :
        applied.out.envelope.CardProfile[k] = [tag |-> "Title", text |-> <<>>]
  /\ applied.out.envelope.before = <<[tag |-> "CardNo", text |-> <<"1","2","3">>]>>

\* The lines of both audit logs that carry a request envelope
EnvelopeLines ==
  {regLog[k] : k \in {n \in 1..Len(regLog) : Has(regLog[n], "envelope")}}
  \cup {updLog[k] : k \in {n \in 1..Len(updLog) : Has(updLog[n], "envelope")}}

\* The encoded photos of the profiles submitted so far
EncodedPhotos ==
  {sent[c].profile.Photo : c \in {n \in 1..Len(sent) : Truthy(Get(sent[n].profile, "Photo"))}}

\* C23: every request envelope written to an audit log, by the create and the
\* update batches, the single-row update and the single-profile update, has
\* its photo element empty or holding the placeholder, and no element of a
\* logged envelope holds the encoded photo of any profile; every request
\* made so far has such a line when the log can be written
C23_LoggedEnvelopesAreRedacted ==
  /\ \A l \in EnvelopeLines :
       \A k \in 1..Len(l.envelope.CardProfile) :
         \E el \in {l.envelope.CardProfile[k]} :
           /\ el.text \notin EncodedPhotos
           /\ el.tag = "Photo" => el.text \in {<<>>, S_redacted}
  /\ dirExists => Cardinality({k \in 1..Len(regLog) : Has(regLog[k], "envelope")})
                   + Cardinality({k \in 1..Len(updLog) : Has(updLog[k], "envelope")}) = Len(sent)

\* A profile was submitted with its photo and the line logged for it shows
\* the placeholder in the photo element
C23_Witness ==
  /\ EncodedPhotos # {}
  /\ \E l \in EnvelopeLines : \E k \in 1..Len(l.envelope.CardProfile) :
        l.envelope.CardProfile[k] = [tag |-> "Photo", text |-> S_redacted]

\* The places in the log of the lines that run r wrote
LinesOf(r) == {k \in 1..Len(regLog) : regLog[k].run = r}

\* C24: when two runs that write to the same output directory interleave,
\* each suspended only at its own network calls, the log is at all times a
\* sequence of complete lines, each written by exactly one run, and the
\* lines of one run stand in the order that run emitted them, none lost
C24_LogLinesWholeAndInRunOrder ==
  (op = "registerTwice") =>
    /\ \A k \in 1..Len(regLog) : regLog[k].end = "\n" /\ regLog[k].run \in TaskIds
    /\ \A r \in TaskIds :
         /\ Cardinality(LinesOf(r)) = tasks[r].emitted
         /\ \A k \in LinesOf(r) : regLog[k].seq = Cardinality({j \in LinesOf(r) : j <= k})

\* Both runs have returned, each after at least one call, and a line of
\* run 2 stands between two lines of run 1
C24_Witness ==
  /\ op = "registerTwice"
  /\ \A r \in TaskIds : tasks[r].pc = "returned" /\ tasks[r].n > 0
  /\ \E a, b, c \in 1..Len(regLog) :
        /\ a < b /\ b < c
        /\ regLog[a].run = 1 /\ regLog[b].run = 2 /\ regLog[c].run = 1
        /\ regLog[b].event = "soap_request"

\* A body has been parsed by one of the two operations
BodyParsed == applied.fn \in {"postAddCard", "postUpdateCard"}

\* The content of the first occurrence of a tag, matched whatever the case of
\* its letters and across line breaks, without the white space around it
StatedField(tag) == trimmedMatch(matchTag(applied.arg.text, tag, TRUE, TRUE))

\* The identifier tags of the operation that parsed the body
StatedId ==
  IF applied.fn = "postUpdateCard" THEN StatedField(T_MediaID)
  ELSE IF StatedField(T_CardID) # Undef THEN StatedField(T_CardID) ELSE StatedField(T_ID)

\* C25: for create and update responses alike the vendor code, message and
\* identifier are the content of the first occurrence of their tag in the
\* body, matched whatever the case and across line breaks, surrounding white
\* space dropped, an absent tag giving undefined; so a 2xx response whose
\* code tag holds 0 within white space or line breaks is a success in both
C25_TagsReadTolerantlyInBothOperations ==
  BodyParsed =>
    /\ applied.out.resp.errCode = StatedField(T_ErrCode)
    /\ applied.out.resp.errMessage = StatedField(T_ErrMessage)
    /\ applied.out.resp.id = StatedId
    /\ (Is2xx(applied.arg.st) /\ StatedField(T_ErrCode) = <<"0">>) => applied.out.ok

\* The calls of one pass: 1 for the batch, 2 for the script's retry
CallsOfPass(p) == {c \in 1..Len(sent) : sent[c].pass = p}

\* The rows whose first-pass error mentions a truncation
TruncationFailedRows ==
  {result.errors[e].index :
     e \in {n \in IndexedErrors : MentionsTruncated(Get(result.errors[n], "message"))}}

\* The run is over: the batch has returned its summary and its caller has
\* replied, the script has exited
BatchComplete ==
  \/ op \in BatchOps /\ pc = "replied"
  \/ op = "cli" /\ pc = "exited"

\* C26: when every call comes back, a batch run over n rows reaches its end
\* and returns its summary after at most n calls, the script's retry pass
\* then ends after at most one more call for each row that failed with a
\* truncation, and no row is called twice in a pass
C26_BatchEndsWithinItsCalls ==
  /\ [](op \in BatchOps \cup {"cli"} =>
          /\ Cardinality(CallsOfPass(1)) <= Len(readRows)
          /\ Cardinality(CallsOfPass(2)) <= Cardinality(TruncationFailedRows)
          /\ \A c, d \in 1..Len(sent) :
                (c # d /\ sent[c].pass = sent[d].pass) => sent[c].index # sent[d].index)
  /\ (op \in BatchOps \cup {"cli"}) ~> BatchComplete

\* The script has exited after a first pass with a call for every row and a
\* retry pass of two calls
C26_Witness ==
  /\ op = "cli" /\ pc = "exited"
  /\ Len(readRows) >= 2
  /\ Cardinality(CallsOfPass(1)) = Len(readRows)
  /\ Cardinality(CallsOfPass(2)) = 2

\* A batch has returned its summary
BatchReturned == op \in BatchOps \cup {"cli"} /\ pc \in {"returned", "replied", "retry", "retryAwait", "exited"}

\* C27: every attempted row yields exactly one entry in the summary's
\* details, whatever its outcome, so at the end of a batch run details has
\* as many entries as attempted rows
C27_OneDetailPerAttemptedRow ==
  BatchReturned => Len(result.details) = result.attempted

\* The codes of the errors a create batch returns when its input is refused
ValidationCodes == {"OUTPUT_NOT_FOUND", "CSV_NOT_FOUND", "NO_ROWS"}

\* The batch got past the checks of its input
PastValidation ==
  /\ op \in BatchOps \cup {"cli"}
  /\ pc # "start"
  /\ \A e \in 1..Len(result.errors) : result.errors[e].code \notin ValidationCodes

\* A single-row update of a row the file has has returned
ValidSingleReturned == op \in SingleOps /\ single.called /\ single.attempted = 1

\* C28: in a batch run that got past input validation each processed row
\* adds exactly one of a success count or an error entry: after every row
\* succeeded plus the number of errors is the number of rows processed so
\* far, and at the end it is attempted; for a valid single-row update the
\* sum is 1 and rowStatus.ok holds exactly when errors is empty
C28_SuccessOrErrorPerRow ==
  /\ (PastValidation /\ pc \in {"loop", "await"}) =>
        result.registered + Len(result.errors) = i
  /\ (PastValidation /\ pc \notin {"loop", "await"}) =>
        /\ result.registered + Len(result.errors) = result.attempted
        /\ result.attempted = Len(readRows)
  /\ ValidSingleReturned =>
        /\ single.registered + Len(single.errors) = 1
        /\ single.rowStatus.ok <=> (Len(single.errors) = 0)

\* A batch of three rows has returned with a success and an error counted
C28_Witness ==
  /\ PastValidation /\ pc = "returned"
  /\ result.attempted = MaxRows
  /\ result.registered >= 1 /\ Len(result.errors) >= 1
  /\ result.registered + Len(result.errors) = MaxRows

\* The limits of the update mapper, by field
UpdateMapperMax ==
  [Name |-> UpdMaxName, Department |-> UpdMaxDepartment, Company |-> UpdMaxCompany,
   Title |-> UpdMaxTitle, Position |-> UpdMaxPosition, Address1 |-> UpdMaxAddress1,
   Email |-> UpdMaxEmail, MobileNo |-> UpdMaxMobileNo, VehicleNo |-> UpdMaxVehicleNo,
   StaffNo |-> UpdMaxStaffNo]

\* C29: in the script's truncation retry, the input file and the photos being
\* the same in both passes, the profile resubmitted for a row carries in
\* every field the value of the profile submitted for that row in the first
\* pass: no limit of the retry table is tighter than the update mapper's
\* limit for the same field, so the retry override shortens nothing
C29_RetrySubmitsTheSameProfile ==
  (op = "cli") =>
    /\ \A d \in CallsOfPass(2) : \A c \in CallsOfPass(1) :
          sent[d].index = sent[c].index => sent[d].profile = sent[c].profile
    /\ \A d \in CallsOfPass(2) : \E c \in CallsOfPass(1) : sent[d].index = sent[c].index
    /\ \A k \in DOMAIN UpdateMapperMax : k \in DOMAIN RetryMAX => RetryMAX[k] >= UpdateMapperMax[k]

\* A row with over-long cells was resubmitted by the retry
C29_Witness ==
  /\ op = "cli"
  /\ \E d \in CallsOfPass(2) : readRows[sent[d].index + 1] = RowLong /\ sent[d].answered

\* What a request is answered when no other request is being served
AloneOutcome(card, raw) ==
  IF card = "blank" THEN [status |-> 400, success |-> FALSE]
  ELSE IF card = "absent" THEN [status |-> 404, success |-> FALSE]
  ELSE IF raw.type = "throw" THEN [status |-> 500, success |-> FALSE]
  ELSE [status |-> 200, success |-> updateOk(postUpdateCard(raw))]

\* C30: when two update-card-db requests overlap, a request that is about to
\* query still has an open connection, whichever request finished first, and
\* every request is answered as it would be had it been served alone
C30_OverlappingRequestsKeepTheirConnection ==
  (op = "updateCardDbTwice") =>
    \A r \in TaskIds :
      /\ tasks[r].pc \in {"query1", "query2"} => tasks[r].conn = "open"
      /\ tasks[r].pc \in {"finally", "done"} =>
            [status |-> tasks[r].status, success |-> tasks[r].success]
              = AloneOutcome(tasks[r].card, tasks[r].raw)

============================================================================
